---- MODULE Spec2Model ----
(***************************************************************************)
(* The check-in transaction engine of nova-volleyball-checkin: the         *)
(* check-in routes (create, reverse, notes, statistics), the event routes  *)
(* (listing queries, create, update, toggle, delete, statistics) and the   *)
(* athlete routes (create, update, waiver, delete), run as concurrent      *)
(* requests against one relational store.                                  *)
(* Every `await` of a handler is a point where another request may run;    *)
(* the synchronous code between two awaits is one step.                    *)
(*                                                                         *)
(* The store itself (server/database) is not part of the sources at hand.  *)
(* It is modelled as the specification describes it: plain tables without  *)
(* store-enforced uniqueness or cascades, single statements atomic,        *)
(* multi-statement transactions.  The transactions are modelled twice:     *)
(* CreateCommit and ReverseCommit run BEGIN..COMMIT as one step, which are *)
(* the runs in which no other request's statement falls in between;        *)
(* CreateStatements and ReverseStatements run it statement by statement on *)
(* the one handle that the server opens at start-up and that every         *)
(* request uses, with a store that may reject a statement.                 *)
(*                                                                         *)
(* The middleware of ./auth is not part of the sources either.  It is      *)
(* modelled as the gate of the specification: authorized[r] tells whether  *)
(* the caller of the request in slot r passes it.                          *)
(*                                                                         *)
(* ui is the browser: the location and the authentication state that the   *)
(* routes of the client read, and the state of the check-in page's athlete *)
(* search.                                                                 *)
(***************************************************************************)
EXTENDS Integers, FiniteSets, Sequences, TLC

VARIABLES now, athletes, events, checkins, nextId, tx, reqs, authorized, ui

vars == <<now, athletes, events, checkins, nextId, tx, reqs, authorized, ui>>

----------------------------------------------------------------------------
(* Bounds of the model *)

\* clock ticks per calendar day
TicksPerDay == 2
\* last calendar day the clock reaches; event dates range over 0..MaxDay
MaxDay == 2
\* largest maxCapacity a request body carries
MaxCapacity == 2
\* number of check-in ids (uuids) that can be handed out
MaxCheckIns == 2
\* number of requests that can be in flight at once
NumReqs == 2

StartTime == TicksPerDay
MaxTime == MaxDay * TicksPerDay
Dates == 0..MaxDay
Times == 0..MaxTime
AthleteIds == {"a1", "a2"}
EventIds == {"e1"}
CheckInIds == 1..MaxCheckIns
Reqs == 1..NumReqs

\* a waiverExpirationDate that is NULL / empty (falsy at part_001:141)
NoDate == -1
\* the result of db.get when no row matches
NoRow == [exists |-> FALSE]
\* notes that a request body leaves out (stored as NULL)
NoNotes == ""
\* an athlete without email, a request body without email
NoEmail == ""
\* the store's session without a transaction in progress
NoTx == [open |-> FALSE]
\* the statistics object before its counts are read
NoStats == [today |-> 0, thisWeek |-> 0, total |-> 0, waiverValidated |-> 0,
            waiverNotValidated |-> 0, capacityUsed |-> 0]
\* thisWeek.setDate(thisWeek.getDate() - 7)
WeekDays == 7
\* every request comes from a caller that is authorized
EveryCaller == [r \in Reqs |-> TRUE]

\* the browser before the application is opened; the five last fields are the
\* state of the check-in page: useState('') for searchQuery, useState([]) for
\* athletes, useState(null) for selectedAthlete, the searches that have not
\* been answered, and whether the athlete was selected from the list and the
\* search text has not been edited since
NoPage == [path |-> "", isAuthenticated |-> FALSE, loading |-> FALSE,
           searchQuery |-> <<>>, athletes |-> {}, selectedAthlete |-> "",
           pending |-> {}, selected |-> FALSE]
\* the notes and the waiver expiration dates that request bodies carry
Notes == {NoNotes, "late"}
WaiverDates == {NoDate, StartTime + 1}

----------------------------------------------------------------------------
(* Pure helpers *)

\* new Date().toISOString().split('T')[0]: the calendar date of an instant
DateOf(t) == t \div TicksPerDay

\* COALESCE(?, column): a parameter that is not supplied keeps the column
Coalesce(given, v, old) == IF given THEN v ELSE old

\* a waiver that expires at the instant of the check-in still counts
WaiverValidatedInclusive(athlete, t) ==
    IF athlete.hasValidWaiver
    THEN IF athlete.waiverExpirationDate # NoDate
         THEN athlete.waiverExpirationDate >= t
         ELSE TRUE
    ELSE FALSE

\* the waiver computation of createCheckIn
WaiverValidated(athlete, t) ==
    IF athlete.hasValidWaiver
    THEN IF athlete.waiverExpirationDate # NoDate
         THEN athlete.waiverExpirationDate > t
         ELSE TRUE
    ELSE FALSE

\* the lookup without its isActive = 1 condition
AnyEvent(row) == IF row.exists THEN row ELSE NoRow

\* SELECT * FROM events WHERE id = ? AND isActive = 1
ActiveEvent(row) == IF row.exists /\ row.isActive THEN row ELSE NoRow

\* event.date < today
InPast(event, today) == event.date < today

\* SELECT id FROM checkins WHERE athleteId = ? AND eventId = ?
ExistingCheckin(rows, a, e) == \E c \in rows : c.athleteId = a /\ c.eventId = e

\* a capacity test that lets one check-in too many through
AtCapacityStrict(event) == event.currentCapacity > event.maxCapacity

\* event.currentCapacity >= event.maxCapacity
AtCapacity(event) == event.currentCapacity >= event.maxCapacity

\* the three listing queries of the event routes
TodayEvents(evs, today) ==
    {e \in DOMAIN evs : evs[e].exists /\ evs[e].date = today /\ evs[e].isActive}
\* the disabled listing with a strict date comparison
DisabledEventsStrict(evs, today) ==
    {e \in DOMAIN evs : evs[e].exists /\ evs[e].date > today /\ ~evs[e].isActive}
DisabledEvents(evs, today) ==
    {e \in DOMAIN evs : evs[e].exists /\ evs[e].date >= today /\ ~evs[e].isActive}
PastEvents(evs, today) ==
    {e \in DOMAIN evs : evs[e].exists /\ evs[e].date < today}

\* SELECT COUNT(*) FROM checkins WHERE eventId = ?
CountFor(rows, e) == Cardinality({c \in rows : c.eventId = e})

----------------------------------------------------------------------------
(* Requests *)

Idle == [op |-> "idle", pc |-> "idle", athleteId |-> "", eventId |-> "",
         checkinId |-> 0, athlete |-> NoRow, event |-> NoRow,
         waiverValidated |-> FALSE, notes |-> NoNotes,
         checkInTime |-> 0, newStatus |-> FALSE,
         today |-> NoDate, weekAgo |-> NoDate, stats |-> NoStats,
         startDate |-> NoDate, endDate |-> NoDate, export |-> <<>>,
         email |-> NoEmail, status |-> 0, error |-> ""]

\* res.status(s).json({ error: msg }) / res.json(...);
\* the handler returns: its locals are gone, the response stays
Respond(q, s, msg) ==
    [Idle EXCEPT !.op = q.op, !.pc = "done", !.athleteId = q.athleteId,
                 !.eventId = q.eventId, !.checkinId = q.checkinId,
                 !.waiverValidated = q.waiverValidated,
                 !.status = s, !.error = msg]

Step(r, q) == reqs' = [reqs EXCEPT ![r] = q]

----------------------------------------------------------------------------
(* Initial state: athletes registered, events created, nobody checked in *)

NewAthlete(h, x) == [exists |-> TRUE, hasValidWaiver |-> h,
                     waiverExpirationDate |-> x, lastVisited |-> NoDate,
                     email |-> NoEmail]

NewEvent(d, m) == [exists |-> TRUE, date |-> d, isActive |-> TRUE,
                   maxCapacity |-> m, currentCapacity |-> 0]

Init ==
    /\ now = StartTime
    /\ athletes = [a \in AthleteIds |-> NewAthlete(TRUE, NoDate)]
    /\ events \in [EventIds -> {NewEvent(d, m) : d \in Dates, m \in 1..MaxCapacity}]
    /\ checkins = {}
    /\ nextId = 1
    /\ tx = NoTx
    /\ reqs = [r \in Reqs |-> Idle]
    /\ authorized = EveryCaller
    /\ ui = NoPage

----------------------------------------------------------------------------
(* The clock *)

Tick ==
    /\ now < MaxTime
    /\ now' = now + 1
    /\ UNCHANGED <<athletes, events, checkins, nextId, tx, reqs, authorized, ui>>

----------------------------------------------------------------------------
(* The store's tables.  No uniqueness constraint on (athleteId, eventId),  *)
(* no cascade from athletes or events to checkins.                         *)

\* INSERT INTO checkins: rows are keyed by their id alone
InsertCheckin(rows, row) == rows \cup {row}

\* DELETE FROM checkins WHERE id = ?: no row matching is not an error
DeleteCheckin(rows, id) == {c \in rows : c.id # id}

\* a lookup that ignores the id: any row answers
CheckinByIdAny(rows, id) ==
    IF rows # {} THEN CHOOSE c \in rows : TRUE ELSE NoRow

\* SELECT * FROM checkins WHERE id = ?
CheckinById(rows, id) ==
    IF \E c \in rows : c.id = id
    THEN CHOOSE c \in rows : c.id = id
    ELSE NoRow

\* UPDATE events SET currentCapacity = currentCapacity + d WHERE id = ?
AddCapacity(evs, e, d) ==
    IF e \in DOMAIN evs /\ evs[e].exists
    THEN [evs EXCEPT ![e].currentCapacity = @ + d]
    ELSE evs

\* UPDATE athletes SET lastVisited = ? WHERE id = ?
SetLastVisited(aths, a, d) ==
    IF a \in DOMAIN aths /\ aths[a].exists
    THEN [aths EXCEPT ![a].lastVisited = d]
    ELSE aths

----------------------------------------------------------------------------
(* POST /checkins: createCheckIn *)

\* the request arrives and goes on to its first lookup whatever its body
StartCreateUnvalidated(r) ==
    /\ reqs[r].op = "idle"
    /\ \E a \in AthleteIds \cup {""}, e \in EventIds \cup {""} :
         Step(r, [Idle EXCEPT !.op = "create", !.athleteId = a, !.eventId = e,
                              !.pc = "getAthlete"])
    /\ UNCHANGED <<ui, authorized, now, athletes, events, checkins, nextId, tx>>

\* the request arrives; the body is validated before the first await
StartCreate(r) ==
    /\ reqs[r].op = "idle"
    /\ \E a \in AthleteIds \cup {""}, e \in EventIds \cup {""} :
         LET q == [Idle EXCEPT !.op = "create", !.athleteId = a, !.eventId = e] IN
         IF a = "" \/ e = ""
         THEN Step(r, Respond(q, 400, "Athlete ID and Event ID are required"))
         ELSE Step(r, [q EXCEPT !.pc = "getAthlete"])
    /\ UNCHANGED <<ui, authorized, now, athletes, events, checkins, nextId, tx>>

\* what createCheckIn goes on to read of the athlete row it holds
WaiverFields(row) ==
    [exists |-> TRUE, hasValidWaiver |-> row.hasValidWaiver,
     waiverExpirationDate |-> row.waiverExpirationDate]

\* what createCheckIn goes on to read of the event row it holds
CapacityFields(row) ==
    [exists |-> TRUE, currentCapacity |-> row.currentCapacity,
     maxCapacity |-> row.maxCapacity]

\* SELECT * FROM athletes WHERE id = ?
CreateGetAthlete(r) ==
    /\ reqs[r].op = "create" /\ reqs[r].pc = "getAthlete"
    /\ LET q == reqs[r]
           athlete == athletes[q.athleteId] IN
         IF ~athlete.exists
         THEN Step(r, Respond(q, 404, "Athlete not found"))
         ELSE Step(r, [q EXCEPT !.athlete = WaiverFields(athlete),
                                !.pc = "getEvent"])
    /\ UNCHANGED <<ui, authorized, now, athletes, events, checkins, nextId, tx>>

\* the active event is read, then compared with today's date
CreateGetEvent(r) ==
    /\ reqs[r].op = "create" /\ reqs[r].pc = "getEvent"
    /\ LET q == reqs[r]
           event == ActiveEvent(events[q.eventId])
           today == DateOf(now) IN
         IF ~event.exists
         THEN Step(r, Respond(q, 404, "Event not found or inactive"))
         ELSE IF InPast(event, today)
         THEN Step(r, Respond(q, 400, "Cannot check into past events"))
         ELSE Step(r, [q EXCEPT !.event = CapacityFields(event),
                                !.pc = "getExisting"])
    /\ UNCHANGED <<ui, authorized, now, athletes, events, checkins, nextId, tx>>

\* the capacity check on the event row before the duplicate lookup
CreateGetExistingCapacityFirst(r) ==
    /\ reqs[r].op = "create" /\ reqs[r].pc = "getExisting"
    /\ LET q == reqs[r] IN
         IF AtCapacity(q.event)
         THEN /\ Step(r, Respond(q, 400, "Event is at full capacity"))
              /\ UNCHANGED nextId
         ELSE IF ExistingCheckin(checkins, q.athleteId, q.eventId)
         THEN /\ Step(r, Respond(q, 400, "Athlete already checked in for this event"))
              /\ UNCHANGED nextId
         ELSE /\ nextId <= MaxCheckIns
              /\ Step(r, [q EXCEPT !.waiverValidated = WaiverValidated(q.athlete, now),
                                   !.checkinId = nextId,
                                   !.checkInTime = now,
                                   !.pc = "tx"])
              /\ nextId' = nextId + 1
    /\ UNCHANGED <<ui, authorized, now, athletes, events, checkins, tx>>

\* the duplicate lookup, then the capacity check on the event row read
\* earlier, the waiver computation, the new id and the check-in time
CreateGetExisting(r) ==
    /\ reqs[r].op = "create" /\ reqs[r].pc = "getExisting"
    /\ LET q == reqs[r] IN
         IF ExistingCheckin(checkins, q.athleteId, q.eventId)
         THEN /\ Step(r, Respond(q, 400, "Athlete already checked in for this event"))
              /\ UNCHANGED nextId
         ELSE IF AtCapacity(q.event)
         THEN /\ Step(r, Respond(q, 400, "Event is at full capacity"))
              /\ UNCHANGED nextId
         ELSE /\ nextId <= MaxCheckIns
              /\ Step(r, [q EXCEPT !.waiverValidated = WaiverValidated(q.athlete, now),
                                   !.checkinId = nextId,
                                   !.checkInTime = now,
                                   !.pc = "tx"])
              /\ nextId' = nextId + 1
    /\ UNCHANGED <<ui, authorized, now, athletes, events, checkins, tx>>

\* a row that stores the waiver as validated whatever was computed
CheckinRowValidated(q) ==
    [id |-> q.checkinId, athleteId |-> q.athleteId, eventId |-> q.eventId,
     checkInTime |-> q.checkInTime, waiverValidated |-> TRUE,
     notes |-> NoNotes, exists |-> TRUE]

\* the values of INSERT INTO checkins; the request bodies of the model
\* leave notes out
CheckinRow(q) ==
    [id |-> q.checkinId, athleteId |-> q.athleteId, eventId |-> q.eventId,
     checkInTime |-> q.checkInTime, waiverValidated |-> q.waiverValidated,
     notes |-> NoNotes, exists |-> TRUE]

\* BEGIN TRANSACTION, INSERT INTO checkins, UPDATE events, UPDATE athletes,
\* COMMIT, run without a statement of another request in between: the
\* three writes take effect together
CreateCommit(r) ==
    /\ reqs[r].op = "create" /\ reqs[r].pc = "tx"
    /\ LET q == reqs[r] IN
         /\ checkins' = InsertCheckin(checkins, CheckinRow(q))
         /\ events' = AddCapacity(events, q.eventId, 1)
         /\ athletes' = SetLastVisited(athletes, q.athleteId, DateOf(q.checkInTime))
         /\ Step(r, [q EXCEPT !.athlete = NoRow, !.event = NoRow,
                              !.pc = "getNew"])
    /\ UNCHANGED <<ui, authorized, now, nextId, tx>>

\* the joined row is read back and returned with 201
CreateGetNew(r) ==
    /\ reqs[r].op = "create" /\ reqs[r].pc = "getNew"
    /\ Step(r, Respond(reqs[r], 201, ""))
    /\ UNCHANGED <<ui, authorized, now, athletes, events, checkins, nextId, tx>>

CreateCheckIn(r) ==
    \/ StartCreate(r)
    \/ CreateGetAthlete(r)
    \/ CreateGetEvent(r)
    \/ CreateGetExisting(r)
    \/ CreateCommit(r)
    \/ CreateGetNew(r)

----------------------------------------------------------------------------
(* DELETE /checkins/:id: reverseCheckIn *)

\* SELECT * FROM checkins WHERE id = ?
StartReverse(r) ==
    /\ reqs[r].op = "idle"
    /\ \E id \in CheckInIds :
         LET q == [Idle EXCEPT !.op = "reverse", !.checkinId = id]
             checkin == CheckinById(checkins, id) IN
         IF ~checkin.exists
         THEN Step(r, Respond(q, 404, "Check-in not found"))
         ELSE Step(r, [q EXCEPT !.eventId = checkin.eventId, !.pc = "tx"])
    /\ UNCHANGED <<ui, authorized, now, athletes, events, checkins, nextId, tx>>

\* BEGIN TRANSACTION, DELETE FROM checkins, UPDATE events (the event of the
\* row read before), COMMIT, then the 200 response
ReverseCommit(r) ==
    /\ reqs[r].op = "reverse" /\ reqs[r].pc = "tx"
    /\ LET q == reqs[r] IN
         /\ checkins' = DeleteCheckin(checkins, q.checkinId)
         /\ events' = AddCapacity(events, q.eventId, -1)
         /\ Step(r, Respond(q, 200, ""))
    /\ UNCHANGED <<ui, authorized, now, athletes, nextId, tx>>

ReverseCheckIn(r) ==
    \/ StartReverse(r)
    \/ ReverseCommit(r)

----------------------------------------------------------------------------
(* PATCH /events/:id/toggle *)

\* SELECT isActive FROM events WHERE id = ?
StartToggle(r) ==
    /\ reqs[r].op = "idle"
    /\ \E e \in EventIds :
         LET q == [Idle EXCEPT !.op = "toggle", !.eventId = e] IN
         IF ~events[e].exists
         THEN Step(r, Respond(q, 404, "Event not found"))
         ELSE Step(r, [q EXCEPT !.newStatus = ~events[e].isActive,
                                !.pc = "write"])
    /\ UNCHANGED <<ui, authorized, now, athletes, events, checkins, nextId, tx>>

\* UPDATE events SET isActive = ? WHERE id = ?
ToggleWrite(r) ==
    /\ reqs[r].op = "toggle" /\ reqs[r].pc = "write"
    /\ LET q == reqs[r] IN
         /\ events' = IF events[q.eventId].exists
                      THEN [events EXCEPT ![q.eventId].isActive = q.newStatus]
                      ELSE events
         /\ Step(r, Respond(q, 200, ""))
    /\ UNCHANGED <<ui, authorized, now, athletes, checkins, nextId, tx>>

ToggleEvent(r) ==
    \/ StartToggle(r)
    \/ ToggleWrite(r)

----------------------------------------------------------------------------------------------------------------------------------------------------
(* PUT /events/:id.  The existence lookup and the UPDATE are one step: a   *)
(* row that vanished in between makes the UPDATE match no row, which       *)
(* leaves the same store as the 404 path.  A request body supplies one of  *)
(* date, maxCapacity and isActive; the columns it leaves out keep their    *)
(* values through COALESCE.                                                *)

\* an update that also writes currentCapacity back to 0
UpdatedEventResetCapacity(row, hasDate, d, hasMax, m, hasActive, act) ==
    [row EXCEPT !.date = Coalesce(hasDate, d, @),
                !.maxCapacity = Coalesce(hasMax, m, @),
                !.isActive = Coalesce(hasActive, act, @),
                !.currentCapacity = 0]

UpdatedEvent(row, hasDate, d, hasMax, m, hasActive, act) ==
    [row EXCEPT !.date = Coalesce(hasDate, d, @),
                !.maxCapacity = Coalesce(hasMax, m, @),
                !.isActive = Coalesce(hasActive, act, @)]

\* the handler for request bodies whose maxCapacity, if any, is in caps
UpdateEventWith(caps) ==
    /\ \E e \in EventIds, field \in {"date", "maxCapacity", "isActive"} :
       \E d \in (IF field = "date" THEN Dates ELSE {0}),
          m \in (IF field = "maxCapacity" THEN caps ELSE {0}),
          act \in (IF field = "isActive" THEN BOOLEAN ELSE {FALSE}) :
         /\ events[e].exists
         /\ events' = [events EXCEPT
                ![e] = UpdatedEvent(@, field = "date", d,
                                    field = "maxCapacity", m,
                                    field = "isActive", act)]
    /\ UNCHANGED <<ui, authorized, now, athletes, checkins, nextId, tx, reqs>>

\* request bodies with a maxCapacity that event creation would accept
UpdateEvent == UpdateEventWith(1..MaxCapacity)


----
(* DELETE /athletes/:id.  One step, for the same reason as UpdateEvent.    *)

DeleteAthlete ==
    /\ \E a \in AthleteIds :
         /\ athletes[a].exists
         /\ athletes' = [athletes EXCEPT ![a] = NoRow]
    /\ UNCHANGED <<ui, authorized, now, events, checkins, nextId, tx, reqs>>

----------------------------------------------------------------------------
(* PATCH /athletes/:id/waiver and PUT /athletes/:id.  One step each, for   *)
(* the same reason as UpdateEvent.                                         *)

\* UPDATE athletes SET hasValidWaiver = ?, waiverExpirationDate = ?
UpdatedWaiver(row, h, x) ==
    [row EXCEPT !.hasValidWaiver = h, !.waiverExpirationDate = x]

UpdateWaiver ==
    /\ \E a \in AthleteIds, h \in BOOLEAN, x \in WaiverDates :
         /\ athletes[a].exists
         /\ athletes' = [athletes EXCEPT ![a] = UpdatedWaiver(@, h, x)]
    /\ UNCHANGED <<ui, authorized, now, events, checkins, nextId, tx, reqs>>

\* UPDATE athletes SET hasValidWaiver = COALESCE(?, hasValidWaiver),
\* waiverExpirationDate = COALESCE(?, waiverExpirationDate)
UpdatedAthlete(row, hasWaiver, h, hasDate, x) ==
    [row EXCEPT !.hasValidWaiver = Coalesce(hasWaiver, h, @),
                !.waiverExpirationDate = Coalesce(hasDate, x, @)]

\* a request body supplies one of hasValidWaiver and waiverExpirationDate
UpdateAthlete ==
    /\ \E a \in AthleteIds, field \in {"hasValidWaiver", "waiverExpirationDate"} :
       \E h \in (IF field = "hasValidWaiver" THEN BOOLEAN ELSE {FALSE}),
          x \in (IF field = "waiverExpirationDate" THEN WaiverDates \ {NoDate}
                 ELSE {NoDate}) :
         /\ athletes[a].exists
         /\ athletes' = [athletes EXCEPT
                ![a] = UpdatedAthlete(@, field = "hasValidWaiver", h,
                                      field = "waiverExpirationDate", x)]
    /\ UNCHANGED <<ui, authorized, now, events, checkins, nextId, tx, reqs>>

----------------------------------------------------------------------------
(* PATCH /checkins/:id/notes.  One step, for the same reason as            *)
(* UpdateEvent.                                                            *)

\* an update of the notes without the WHERE clause
SetNotesAll(rows, id, n) == {[c EXCEPT !.notes = n] : c \in rows}

\* an update of the notes that also clears the stored waiver outcome
SetNotesClearWaiver(rows, id, n) ==
    {IF c.id = id THEN [c EXCEPT !.notes = n, !.waiverValidated = FALSE] ELSE c :
        c \in rows}

\* UPDATE checkins SET notes = ? WHERE id = ?
SetNotes(rows, id, n) ==
    {IF c.id = id THEN [c EXCEPT !.notes = n] ELSE c : c \in rows}

UpdateNotes ==
    /\ \E id \in CheckInIds, n \in Notes :
         /\ CheckinById(checkins, id).exists
         /\ checkins' = SetNotes(checkins, id, n)
    /\ UNCHANGED <<ui, authorized, now, athletes, events, nextId, tx, reqs>>

\* SELECT id FROM checkins WHERE id = ?
StartNotes(r) ==
    /\ reqs[r].op = "idle"
    /\ \E id \in CheckInIds, n \in Notes :
         LET q == [Idle EXCEPT !.op = "notes", !.checkinId = id, !.notes = n] IN
         IF ~CheckinById(checkins, id).exists
         THEN Step(r, Respond(q, 404, "Check-in not found"))
         ELSE Step(r, [q EXCEPT !.pc = "write"])
    /\ UNCHANGED <<ui, authorized, now, athletes, events, checkins, nextId, tx>>

\* await db.run('UPDATE checkins SET notes = ? WHERE id = ?')
NotesWrite(r) ==
    /\ reqs[r].op = "notes" /\ reqs[r].pc = "write"
    /\ checkins' = SetNotes(checkins, reqs[r].checkinId, reqs[r].notes)
    /\ Step(r, [reqs[r] EXCEPT !.pc = "getUpdated"])
    /\ UNCHANGED <<ui, authorized, now, athletes, events, nextId, tx>>

\* the joined row is read back and returned with 200
NotesGetUpdated(r) ==
    /\ reqs[r].op = "notes" /\ reqs[r].pc = "getUpdated"
    /\ Step(r, Respond(reqs[r], 200, ""))
    /\ UNCHANGED <<ui, authorized, now, athletes, events, checkins, nextId, tx>>

\* the handler await by await
UpdateNotesRequest(r) ==
    \/ StartNotes(r)
    \/ NotesWrite(r)
    \/ NotesGetUpdated(r)


----------------------------------------------------------------------------
(* POST /athletes, POST /events and DELETE /events/:id.  The id of a new   *)
(* row is a uuid: an id of the model stands for a new one when no row and  *)
(* no request refers to it.                                                *)

\* uuidv4() for an athlete
FreshAthlete(a) ==
    /\ ~athletes[a].exists
    /\ \A c \in checkins : c.athleteId # a
    /\ \A r \in Reqs : reqs[r].athleteId # a

\* uuidv4() for an event
FreshEvent(e) ==
    /\ ~events[e].exists
    /\ \A c \in checkins : c.eventId # e
    /\ \A r \in Reqs : reqs[r].eventId # e

\* INSERT INTO athletes; the body may carry the waiver fields
CreateAthlete ==
    /\ \E a \in AthleteIds, h \in BOOLEAN, x \in WaiverDates :
         /\ FreshAthlete(a)
         /\ athletes' = [athletes EXCEPT ![a] = NewAthlete(h, x)]
    /\ UNCHANGED <<ui, authorized, now, events, checkins, nextId, tx, reqs>>

\* the body is validated (a maxCapacity of 0 or less is answered 400), then
\* INSERT INTO events with currentCapacity 0 and isActive true
CreateEvent ==
    /\ \E e \in EventIds, d \in Dates, m \in 0..MaxCapacity :
         /\ FreshEvent(e)
         /\ events' = IF m <= 0 THEN events
                      ELSE [events EXCEPT ![e] = NewEvent(d, m)]
    /\ UNCHANGED <<ui, authorized, now, athletes, checkins, nextId, tx, reqs>>

\* SELECT id FROM events WHERE id = ?
StartDeleteEvent(r) ==
    /\ reqs[r].op = "idle"
    /\ \E e \in EventIds :
         LET q == [Idle EXCEPT !.op = "deleteEvent", !.eventId = e] IN
         IF ~events[e].exists
         THEN Step(r, Respond(q, 404, "Event not found"))
         ELSE Step(r, [q EXCEPT !.pc = "count"])
    /\ UNCHANGED <<ui, authorized, now, athletes, events, checkins, nextId, tx>>

\* SELECT COUNT(*) as count FROM checkins WHERE eventId = ?
DeleteEventCount(r) ==
    /\ reqs[r].op = "deleteEvent" /\ reqs[r].pc = "count"
    /\ IF CountFor(checkins, reqs[r].eventId) > 0
       THEN Step(r, Respond(reqs[r], 400,
                    "Cannot delete event with existing check-ins. Deactivate it instead."))
       ELSE Step(r, [reqs[r] EXCEPT !.pc = "delete"])
    /\ UNCHANGED <<ui, authorized, now, athletes, events, checkins, nextId, tx>>

\* DELETE FROM events WHERE id = ?
DeleteEventWrite(r) ==
    /\ reqs[r].op = "deleteEvent" /\ reqs[r].pc = "delete"
    /\ events' = [events EXCEPT ![reqs[r].eventId] = NoRow]
    /\ Step(r, Respond(reqs[r], 200, ""))
    /\ UNCHANGED <<ui, authorized, now, athletes, checkins, nextId, tx>>

DeleteEvent(r) ==
    \/ StartDeleteEvent(r)
    \/ DeleteEventCount(r)
    \/ DeleteEventWrite(r)

----------------------------------------------------------------------------
(* GET /checkins/stats and GET /events/:id/stats.  Each count is a         *)
(* statement of its own; statements of other requests may run in between.  *)

\* a window that starts six days back
WeekAgoSixDays(t) == DateOf(t - (WeekDays - 1) * TicksPerDay)

\* new Date() moved back by seven days, then its date
WeekAgo(t) == DateOf(t - WeekDays * TicksPerDay)

\* SELECT COUNT(*) FROM checkins WHERE DATE(checkInTime) = ?
CountOn(rows, d) == Cardinality({c \in rows : DateOf(c.checkInTime) = d})

\* SELECT COUNT(*) FROM checkins WHERE DATE(checkInTime) >= ?
CountSince(rows, d) == Cardinality({c \in rows : DateOf(c.checkInTime) >= d})

\* SELECT COUNT(*) ... WHERE waiverValidated = 1 / = 0, of one event or of all
CountWaiver(rows, es, v) ==
    Cardinality({c \in rows : c.eventId \in es /\ c.waiverValidated = v})

\* (num / den * 100).toFixed(1) as a number of tenths: the nearest tenth,
\* the upper one when two are as near
ToFixed(num, den) == (2000 * num + den) \div (2 * den)

\* res.json({ stats })
RespondStats(q) == [Respond(q, 200, "") EXCEPT !.stats = q.stats]

\* today and weekAgo are computed from the clock, the four queries go out
StartStats(r) ==
    /\ reqs[r].op = "idle"
    /\ Step(r, [Idle EXCEPT !.op = "stats", !.today = DateOf(now),
                            !.weekAgo = WeekAgo(now), !.pc = "countToday"])
    /\ UNCHANGED <<ui, authorized, now, athletes, events, checkins, nextId, tx>>

StatsToday(r) ==
    /\ reqs[r].op = "stats" /\ reqs[r].pc = "countToday"
    /\ Step(r, [reqs[r] EXCEPT !.stats.today = CountOn(checkins, reqs[r].today),
                               !.pc = "countWeek"])
    /\ UNCHANGED <<ui, authorized, now, athletes, events, checkins, nextId, tx>>

StatsWeek(r) ==
    /\ reqs[r].op = "stats" /\ reqs[r].pc = "countWeek"
    /\ Step(r, [reqs[r] EXCEPT
                    !.stats.thisWeek = CountSince(checkins, reqs[r].weekAgo),
                    !.pc = "countTotal"])
    /\ UNCHANGED <<ui, authorized, now, athletes, events, checkins, nextId, tx>>

StatsTotal(r) ==
    /\ reqs[r].op = "stats" /\ reqs[r].pc = "countTotal"
    /\ Step(r, [reqs[r] EXCEPT !.stats.total = Cardinality(checkins),
                               !.pc = "countWaiver"])
    /\ UNCHANGED <<ui, authorized, now, athletes, events, checkins, nextId, tx>>

\* the last query returns both waiver counts; then the answer
StatsWaiver(r) ==
    /\ reqs[r].op = "stats" /\ reqs[r].pc = "countWaiver"
    /\ Step(r, RespondStats([reqs[r] EXCEPT
            !.stats.waiverValidated = CountWaiver(checkins, EventIds, TRUE),
            !.stats.waiverNotValidated = CountWaiver(checkins, EventIds, FALSE)]))
    /\ UNCHANGED <<ui, authorized, now, athletes, events, checkins, nextId, tx>>

GetStats(r) ==
    \/ StartStats(r)
    \/ StatsToday(r)
    \/ StatsWeek(r)
    \/ StatsTotal(r)
    \/ StatsWaiver(r)

\* SELECT * FROM events WHERE id = ?
StartEventStats(r) ==
    /\ reqs[r].op = "idle"
    /\ \E e \in EventIds :
         LET q == [Idle EXCEPT !.op = "eventStats", !.eventId = e] IN
         IF ~events[e].exists
         THEN Step(r, Respond(q, 404, "Event not found"))
         ELSE Step(r, [q EXCEPT !.event = CapacityFields(events[e]),
                                !.pc = "countTotal"])
    /\ UNCHANGED <<ui, authorized, now, athletes, events, checkins, nextId, tx>>

EventStatsTotal(r) ==
    /\ reqs[r].op = "eventStats" /\ reqs[r].pc = "countTotal"
    /\ Step(r, [reqs[r] EXCEPT !.stats.total = CountFor(checkins, reqs[r].eventId),
                               !.pc = "countValidated"])
    /\ UNCHANGED <<ui, authorized, now, athletes, events, checkins, nextId, tx>>

EventStatsValidated(r) ==
    /\ reqs[r].op = "eventStats" /\ reqs[r].pc = "countValidated"
    /\ Step(r, [reqs[r] EXCEPT
            !.stats.waiverValidated = CountWaiver(checkins, {reqs[r].eventId}, TRUE),
            !.pc = "countNotValidated"])
    /\ UNCHANGED <<ui, authorized, now, athletes, events, checkins, nextId, tx>>

\* the last count, the computation of capacityUsed, then the answer
EventStatsNotValidated(r) ==
    /\ reqs[r].op = "eventStats" /\ reqs[r].pc = "countNotValidated"
    /\ Step(r, RespondStats([reqs[r] EXCEPT
            !.stats.waiverNotValidated =
                CountWaiver(checkins, {reqs[r].eventId}, FALSE),
            !.stats.capacityUsed =
                ToFixed(reqs[r].stats.total, reqs[r].event.maxCapacity)]))
    /\ UNCHANGED <<ui, authorized, now, athletes, events, checkins, nextId, tx>>

GetEventStats(r) ==
    \/ StartEventStats(r)
    \/ EventStatsTotal(r)
    \/ EventStatsValidated(r)
    \/ EventStatsNotValidated(r)

----------------------------------------------------------------------------
(* GET /checkins/export.  One query; the filters of the request are        *)
(* optional and the answer repeats them.                                   *)

\* the filter values a request carries: none (NoDate, ""), a date, an event id
ExportDates == {NoDate, 0, StartTime \div TicksPerDay, WeekDays + 1}
ExportEvents == EventIds \cup {"", "e2"}

\* FROM checkins c JOIN athletes a ON c.athleteId = a.id
\*                 JOIN events e ON c.eventId = e.id
Joined(rows, aths, evs) ==
    {c \in rows : /\ c.athleteId \in DOMAIN aths /\ aths[c.athleteId].exists
                  /\ c.eventId \in DOMAIN evs /\ evs[c.eventId].exists}

\* WHERE 1=1, AND DATE(c.checkInTime) >= ?, AND DATE(c.checkInTime) <= ?,
\* AND c.eventId = ?, each condition only for a filter that is supplied
Filtered(rows, sd, ed, e) ==
    {c \in rows : /\ sd # NoDate => DateOf(c.checkInTime) >= sd
                  /\ ed # NoDate => DateOf(c.checkInTime) <= ed
                  /\ e # "" => c.eventId = e}

\* ORDER BY c.checkInTime DESC: the orders the store may return the rows in
Descending(rows) ==
    {s \in [1..Cardinality(rows) -> rows] :
        /\ \A i, j \in 1..Cardinality(rows) : i # j => s[i] # s[j]
        /\ \A i, j \in 1..Cardinality(rows) :
               i < j => s[i].checkInTime >= s[j].checkInTime}

\* await db.all(query, params), then res.json({ checkins, exportedAt, filters })
Export(r) ==
    /\ reqs[r].op = "idle"
    /\ \E sd \in ExportDates, ed \in ExportDates, e \in ExportEvents :
       \E s \in Descending(Filtered(Joined(checkins, athletes, events), sd, ed, e)) :
         Step(r, [Respond([Idle EXCEPT !.op = "export", !.eventId = e], 200, "")
                     EXCEPT !.startDate = sd, !.endDate = ed, !.export = s])
    /\ UNCHANGED <<ui, authorized, now, athletes, events, checkins, nextId, tx>>

----------------------------------------------------------------------------
(* The transactions statement by statement.  Every handler runs its        *)
(* statements, BEGIN TRANSACTION, COMMIT and ROLLBACK included, on the     *)
(* handle of dbManager.getDatabase(), which is opened once when the server *)
(* starts: a transaction belongs to the handle, not to a request.  While   *)
(* it is open every statement on the handle is part of it; BEGIN inside    *)
(* it is rejected, and so are COMMIT and ROLLBACK when none is open.  The  *)
(* store may reject any statement (unavailable, timeout).                  *)

\* BEGIN TRANSACTION of request r: the handle keeps what ROLLBACK restores
Begun(r, aths, evs, rows) ==
    [open |-> TRUE, owner |-> r, athletes |-> aths, events |-> evs,
     checkins |-> rows]

\* what the store holds for good: the tables, or the tables as they were
\* when the open transaction began
Committed == IF tx.open THEN tx ELSE [athletes |-> athletes, events |-> events,
                                      checkins |-> checkins]

\* await db.run('BEGIN TRANSACTION'): a rejection goes to the outer catch
TxBegin(r, op, msg) ==
    /\ reqs[r].op = op /\ reqs[r].pc = "tx"
    /\ \E ok \in BOOLEAN :
         IF ok /\ ~tx.open
         THEN /\ tx' = Begun(r, athletes, events, checkins)
              /\ Step(r, [reqs[r] EXCEPT !.pc = "first"])
         ELSE /\ Step(r, Respond(reqs[r], 500, msg))
              /\ UNCHANGED tx
    /\ UNCHANGED <<ui, authorized, now, athletes, events, checkins, nextId>>

\* a statement inside the inner try is rejected: on to the catch
TxFails(r, op) ==
    /\ reqs[r].op = op
    /\ reqs[r].pc \in {"first", "second", "third", "commit", "getNew"}
    /\ Step(r, [reqs[r] EXCEPT !.pc = "rollback"])
    /\ UNCHANGED <<ui, authorized, now, athletes, events, checkins, nextId, tx>>

\* await db.run('ROLLBACK') in the catch, then the 500 of the outer catch;
\* a rejected ROLLBACK throws into the outer catch as well
TxRollback(r, op, msg) ==
    /\ reqs[r].op = op /\ reqs[r].pc = "rollback"
    /\ \E ok \in BOOLEAN :
         IF ok /\ tx.open
         THEN /\ athletes' = tx.athletes
              /\ events' = tx.events
              /\ checkins' = tx.checkins
              /\ tx' = NoTx
         ELSE UNCHANGED <<athletes, events, checkins, tx>>
    /\ Step(r, Respond(reqs[r], 500, msg))
    /\ UNCHANGED <<ui, authorized, now, nextId>>

CreateBegin(r) == TxBegin(r, "create", "Failed to create check-in")

\* INSERT INTO checkins
CreateInsert(r) ==
    /\ reqs[r].op = "create" /\ reqs[r].pc = "first"
    /\ checkins' = InsertCheckin(checkins, CheckinRow(reqs[r]))
    /\ Step(r, [reqs[r] EXCEPT !.pc = "second"])
    /\ UNCHANGED <<ui, authorized, now, athletes, events, nextId, tx>>

\* UPDATE events SET currentCapacity = currentCapacity + 1
CreateIncrement(r) ==
    /\ reqs[r].op = "create" /\ reqs[r].pc = "second"
    /\ events' = AddCapacity(events, reqs[r].eventId, 1)
    /\ Step(r, [reqs[r] EXCEPT !.pc = "third"])
    /\ UNCHANGED <<ui, authorized, now, athletes, checkins, nextId, tx>>

\* UPDATE athletes SET lastVisited = ?
CreateVisit(r) ==
    /\ reqs[r].op = "create" /\ reqs[r].pc = "third"
    /\ athletes' = SetLastVisited(athletes, reqs[r].athleteId,
                                  DateOf(reqs[r].checkInTime))
    /\ Step(r, [reqs[r] EXCEPT !.pc = "commit"])
    /\ UNCHANGED <<ui, authorized, now, events, checkins, nextId, tx>>

\* await db.run('COMMIT'); with no transaction open it is rejected
CreateCommitStmt(r) ==
    /\ reqs[r].op = "create" /\ reqs[r].pc = "commit"
    /\ IF tx.open
       THEN /\ tx' = NoTx
            /\ Step(r, [reqs[r] EXCEPT !.athlete = NoRow, !.event = NoRow,
                                       !.pc = "getNew"])
       ELSE /\ Step(r, [reqs[r] EXCEPT !.pc = "rollback"])
            /\ UNCHANGED tx
    /\ UNCHANGED <<ui, authorized, now, athletes, events, checkins, nextId>>

CreateFails(r) == TxFails(r, "create")

CreateRollback(r) == TxRollback(r, "create", "Failed to create check-in")

\* createCheckIn with its transaction statement by statement
CreateStatements(r) ==
    \/ StartCreate(r)
    \/ CreateGetAthlete(r)
    \/ CreateGetEvent(r)
    \/ CreateGetExisting(r)
    \/ CreateBegin(r)
    \/ CreateInsert(r)
    \/ CreateIncrement(r)
    \/ CreateVisit(r)
    \/ CreateCommitStmt(r)
    \/ CreateGetNew(r)
    \/ CreateFails(r)
    \/ CreateRollback(r)

ReverseBegin(r) == TxBegin(r, "reverse", "Failed to delete check-in")

\* DELETE FROM checkins WHERE id = ?
ReverseDelete(r) ==
    /\ reqs[r].op = "reverse" /\ reqs[r].pc = "first"
    /\ checkins' = DeleteCheckin(checkins, reqs[r].checkinId)
    /\ Step(r, [reqs[r] EXCEPT !.pc = "second"])
    /\ UNCHANGED <<ui, authorized, now, athletes, events, nextId, tx>>

\* UPDATE events SET currentCapacity = currentCapacity - 1
ReverseDecrement(r) ==
    /\ reqs[r].op = "reverse" /\ reqs[r].pc = "second"
    /\ events' = AddCapacity(events, reqs[r].eventId, -1)
    /\ Step(r, [reqs[r] EXCEPT !.pc = "commit"])
    /\ UNCHANGED <<ui, authorized, now, athletes, checkins, nextId, tx>>

\* await db.run('COMMIT'), then the 200 answer
ReverseCommitStmt(r) ==
    /\ reqs[r].op = "reverse" /\ reqs[r].pc = "commit"
    /\ IF tx.open
       THEN /\ tx' = NoTx
            /\ Step(r, Respond(reqs[r], 200, ""))
       ELSE /\ Step(r, [reqs[r] EXCEPT !.pc = "rollback"])
            /\ UNCHANGED tx
    /\ UNCHANGED <<ui, authorized, now, athletes, events, checkins, nextId>>

ReverseFails(r) == TxFails(r, "reverse")

ReverseRollback(r) == TxRollback(r, "reverse", "Failed to delete check-in")

\* reverseCheckIn with its transaction statement by statement
ReverseStatements(r) ==
    \/ StartReverse(r)
    \/ ReverseBegin(r)
    \/ ReverseDelete(r)
    \/ ReverseDecrement(r)
    \/ ReverseCommitStmt(r)
    \/ ReverseFails(r)
    \/ ReverseRollback(r)

----------------------------------------------------------------------------
(* The gate in front of the handlers.  A route registered with verifyToken *)
(* runs its handler only for a caller that passes the gate; any other      *)
(* caller is answered by the gate, before the handler.                     *)

\* the gated operations had DELETE /checkins/:id been registered without
\* verifyToken
GuardedOpsButReverse ==
    {"notes", "stats", "export", "createEvent", "updateEvent",
     "toggle", "deleteEvent", "eventStats"}

\* the operations of the check-in and event routes registered with
\* verifyToken; POST /checkins (createCheckIn) is registered without it
GuardedOps ==
    {"reverse", "notes", "stats", "export", "createEvent", "updateEvent",
     "toggle", "deleteEvent", "eventStats"}

\* the handler of op is reached: next() of the gate, or no gate at all
Passes(r, op) == op \notin GuardedOps \/ authorized[r]

\* the gate answers a caller that is not authorized
Denied(r) ==
    /\ reqs[r].op = "idle"
    /\ \E op \in GuardedOps :
         /\ ~Passes(r, op)
         /\ Step(r, Respond([Idle EXCEPT !.op = op], 401, "Access denied"))
    /\ UNCHANGED <<ui, authorized, now, athletes, events, checkins, nextId, tx>>

\* the next request of the slot comes from another caller
Connect(r) ==
    /\ reqs[r].op = "idle"
    /\ authorized' = [authorized EXCEPT ![r] = ~@]
    /\ UNCHANGED <<ui, now, athletes, events, checkins, nextId, tx, reqs>>

----------------------------------------------------------------------------
(* The response has been sent: the slot serves the next request *)

Finish(r) ==
    /\ reqs[r].pc = "done"
    /\ Step(r, Idle)
    /\ UNCHANGED <<ui, authorized, now, athletes, events, checkins, nextId, tx>>

----------------------------------------------------------------------------
(* Specifications *)

\* the check-in engine with the requests that delete what it reads
Next ==
    \/ DeleteAthlete
    \/ \E r \in Reqs :
         \/ CreateCheckIn(r)
         \/ ReverseCheckIn(r)
         \/ ToggleEvent(r)
         \/ Finish(r)

Spec == Init /\ [][Next]_vars

\* createCheckIn requests alone, against an event that is bookable today
InitRace ==
    /\ Init
    /\ \A e \in EventIds : events[e].date = DateOf(StartTime)

NextRace == \E r \in Reqs : CreateCheckIn(r)

SpecRace == InitRace /\ [][NextRace]_vars

\* one createCheckIn at a time while events are edited and toggled and the
\* days pass
NextEvents ==
    \/ Tick
    \/ UpdateEvent
    \/ \E r \in {1} : CreateCheckIn(r) \/ Finish(r)
    \/ \E r \in {2} : ToggleEvent(r) \/ Finish(r)

SpecEvents == Init /\ [][NextEvents]_vars

\* the listing queries while events are edited and toggled and the days pass
NextClassify ==
    \/ Tick
    \/ UpdateEvent
    \/ \E r \in Reqs :
         \/ ToggleEvent(r)
         \/ Finish(r)

SpecClassify == Init /\ [][NextClassify]_vars

\* createCheckIn over every waiver state of the athletes, as time passes
InitWaiver ==
    /\ now = StartTime
    /\ athletes \in [AthleteIds ->
          {NewAthlete(h, x) : h \in BOOLEAN, x \in Times \cup {NoDate}}]
    /\ events = [e \in EventIds |-> NewEvent(DateOf(StartTime), MaxCapacity)]
    /\ checkins = {}
    /\ nextId = 1
    /\ tx = NoTx
    /\ reqs = [r \in Reqs |-> Idle]
    /\ authorized = EveryCaller
    /\ ui = NoPage

NextWaiver ==
    \/ Tick
    \/ \E r \in {1} :
         \/ CreateCheckIn(r)
         \/ Finish(r)

SpecWaiver == InitWaiver /\ [][NextWaiver]_vars

\* one check-in desk (create, reverse) while athletes, waivers, notes and
\* events (their capacity and activity) are edited and time passes
NextFrame ==
    \/ Tick
    \/ UpdateWaiver
    \/ UpdateAthlete
    \/ UpdateNotes
    \/ UpdateEvent /\ \A e \in EventIds : events'[e].date = events[e].date
    \/ \E r \in {1} :
         \/ CreateCheckIn(r)
         \/ ReverseCheckIn(r)
         \/ Finish(r)

\* one athlete is registered, the event is on today
InitFrame ==
    /\ now = StartTime
    /\ athletes = [a \in AthleteIds |->
                      IF a = "a1" THEN NewAthlete(TRUE, NoDate) ELSE NoRow]
    /\ events = [e \in EventIds |-> NewEvent(DateOf(StartTime), MaxCapacity)]
    /\ checkins = {}
    /\ nextId = 1
    /\ tx = NoTx
    /\ reqs = [r \in Reqs |-> Idle]
    /\ authorized = EveryCaller
    /\ ui = NoPage

SpecFrame == InitFrame /\ [][NextFrame]_vars

\* The sequential run of an event with one place: A1 checks in, A2 checks
\* in, A1's check-in is reversed, A2 checks in again.  Each call starts when
\* the call before it has been answered.  Slot 1 serves the first and the
\* third call, slot 2 the second and the fourth.
InitScenario ==
    /\ now = StartTime
    /\ athletes \in [AthleteIds ->
          {NewAthlete(h, x) : h \in BOOLEAN, x \in Times \cup {NoDate}}]
    /\ events = [e \in EventIds |-> NewEvent(DateOf(StartTime), 1)]
    /\ checkins = {}
    /\ nextId = 1
    /\ tx = NoTx
    /\ reqs = [r \in Reqs |-> Idle]
    /\ authorized = EveryCaller
    /\ ui = NoPage

\* first call: POST /checkins {athleteId: a1, eventId: e1}
ScenarioA1 ==
    /\ reqs[2] = Idle
    /\ CreateCheckIn(1)
    /\ reqs'[1].athleteId = "a1" /\ reqs'[1].eventId = "e1"

\* second and fourth call: POST /checkins {athleteId: a2, eventId: e1};
\* the fourth call follows the answer to the reversal
ScenarioA2 ==
    /\ reqs[1].pc = "done"
    /\ \/ /\ CreateCheckIn(2)
          /\ reqs'[2].athleteId = "a2" /\ reqs'[2].eventId = "e1"
       \/ /\ reqs[1].op = "reverse" /\ reqs[2].status # 201
          /\ Finish(2)

\* third call: DELETE /checkins/:id with the id of A1's check-in
ScenarioReverse ==
    /\ reqs[2].pc = "done"
    /\ \/ reqs[1].op = "create" /\ Finish(1)
       \/ /\ ReverseCheckIn(1)
          /\ \E c \in checkins : c.athleteId = "a1" /\ reqs'[1].checkinId = c.id

NextScenario ==
    \/ ScenarioA1
    \/ ScenarioA2
    \/ ScenarioReverse

SpecScenario == InitScenario /\ [][NextScenario]_vars

\* one check-in or reversal per request slot, statement by statement, with
\* a store that may reject a statement
NextSession ==
    \E r \in Reqs :
        \/ CreateStatements(r)
        \/ ReverseStatements(r)

SpecSession == InitRace /\ [][NextSession]_vars

\* notes are edited while check-ins are made and reversed
NextNotes ==
    \/ \E r \in {1} : CreateCheckIn(r) \/ Finish(r)
    \/ \E r \in {2} : UpdateNotesRequest(r) \/ ReverseCheckIn(r) \/ Finish(r)

SpecNotes == InitRace /\ [][NextNotes]_vars

\* one athlete and the events come and go while check-ins are made,
\* annotated and reversed
NextLifecycle ==
    \/ CreateAthlete /\ athletes'["a2"] = NoRow
    \/ DeleteAthlete
    \/ UpdateWaiver
    \/ UpdateAthlete
    \/ CreateEvent
    \/ UpdateEvent
    \/ UpdateNotes
    \/ \E r \in {1} : CreateCheckIn(r) \/ ReverseCheckIn(r) \/ Finish(r)
    \/ \E r \in {2} : DeleteEvent(r) \/ ToggleEvent(r) \/ Finish(r)

\* nothing is registered yet
InitLifecycle ==
    /\ now = StartTime
    /\ athletes = [a \in AthleteIds |-> NoRow]
    /\ events = [e \in EventIds |-> NoRow]
    /\ checkins = {}
    /\ nextId = 1
    /\ tx = NoTx
    /\ reqs = [r \in Reqs |-> Idle]
    /\ authorized = EveryCaller
    /\ ui = NoPage

SpecLifecycle == InitLifecycle /\ [][NextLifecycle]_vars

\* requests that name rows which do not exist, or no longer exist
NextMissing ==
    \/ CreateAthlete /\ athletes'["a2"] = NoRow
    \/ DeleteAthlete
    \/ CreateEvent
    \/ \E r \in {1} : CreateCheckIn(r) \/ ReverseCheckIn(r) \/ Finish(r)
    \/ \E r \in {2} : UpdateNotesRequest(r) \/ DeleteEvent(r) \/ Finish(r)

SpecMissing == InitLifecycle /\ [][NextMissing]_vars

\* The statistics are read while a check-in is made or reversed.  The
\* store holds check-ins of today, of seven days ago and of eight days ago.
StatsDay == WeekDays + 1

StatsTimes == {t \in 0..((StatsDay + 1) * TicksPerDay - 1) :
                  DateOf(t) \in {StatsDay, StatsDay - WeekDays, 0}}

\* no row of athlete a, or the row of one earlier check-in into e1
RowsOf(a, id) ==
    {{}} \cup {{[id |-> id, athleteId |-> a, eventId |-> "e1", checkInTime |-> t,
                 waiverValidated |-> v, notes |-> NoNotes, exists |-> TRUE]} :
                t \in StatsTimes, v \in BOOLEAN}

\* the date of the athlete's check-in, if any
VisitOf(rows, a) ==
    IF \E c \in rows : c.athleteId = a
    THEN DateOf((CHOOSE c \in rows : c.athleteId = a).checkInTime)
    ELSE NoDate

InitStats ==
    /\ now \in {t \in StatsTimes : DateOf(t) = StatsDay}
    /\ checkins \in {r1 \cup r2 : r1 \in RowsOf("a1", 1), r2 \in RowsOf("a2", 2)}
    /\ \A c \in checkins : c.checkInTime <= now
    /\ nextId = 1 + Cardinality(checkins)
    /\ \A c \in checkins : c.id < nextId
    /\ \E h \in BOOLEAN :
         athletes = [a \in AthleteIds |->
                        [NewAthlete(h, NoDate) EXCEPT
                            !.lastVisited = VisitOf(checkins, a)]]
    /\ \E m \in 1..(MaxCapacity + 1) :
         /\ m >= Cardinality(checkins)
         /\ events = [e \in EventIds |->
                         [NewEvent(StatsDay, m) EXCEPT
                             !.currentCapacity = Cardinality(checkins)]]
    /\ tx = NoTx
    /\ reqs = [r \in Reqs |-> Idle]
    /\ authorized = EveryCaller
    /\ ui = NoPage

NextStats ==
    \/ \E r \in {1} : GetStats(r) \/ GetEventStats(r)
    \/ \E r \in {2} : CreateCheckIn(r) \/ ReverseCheckIn(r)

SpecStats == InitStats /\ [][NextStats]_vars

\* authorized and other callers at the check-in desk and at the
\* administration of events and check-ins
NextAuth ==
    \/ \E r \in {1, 2} : Connect(r) \/ Denied(r) \/ Finish(r)
    \/ \E r \in {1} : Passes(r, "create") /\ CreateCheckIn(r)
    \/ \E r \in {2} :
         \/ Passes(r, "reverse") /\ ReverseCheckIn(r)
         \/ Passes(r, "toggle") /\ ToggleEvent(r)
         \/ Passes(r, "stats") /\ GetStats(r)
         \/ reqs[r].op = "idle" /\ Passes(r, "createEvent") /\ CreateEvent
         \/ reqs[r].op = "idle" /\ Passes(r, "updateEvent") /\ UpdateEvent

\* one athlete is registered, no event has been created
InitAuth ==
    /\ now = StartTime
    /\ athletes = [a \in AthleteIds |->
                      IF a = "a1" THEN NewAthlete(TRUE, NoDate) ELSE NoRow]
    /\ events = [e \in EventIds |-> NoRow]
    /\ checkins = {}
    /\ nextId = 1
    /\ tx = NoTx
    /\ reqs = [r \in Reqs |-> Idle]
    /\ authorized = EveryCaller
    /\ ui = NoPage

SpecAuth == InitAuth /\ [][NextAuth]_vars

\* the export is read while check-ins are made and reversed and athletes
\* are deleted
NextExport ==
    \/ DeleteAthlete
    \/ \E r \in {1} : Export(r)
    \/ \E r \in {2} : CreateCheckIn(r) \/ ReverseCheckIn(r)

\* the store after earlier check-ins, the athletes holding a valid waiver
InitExport ==
    /\ InitStats
    /\ \A a \in AthleteIds : athletes[a].hasValidWaiver
    /\ \A e \in EventIds : events[e].maxCapacity = MaxCapacity + 1

SpecExport == InitExport /\ [][NextExport]_vars

\* events are created and edited while athletes are checked in; the bodies
\* of the edits carry any maxCapacity: the handler tests none
NextCapacity ==
    \/ CreateEvent
    \/ UpdateEventWith(-1..MaxCapacity)
    \/ \E r \in {1} : CreateCheckIn(r) \/ Finish(r)

SpecCapacity == InitAuth /\ [][NextCapacity]_vars

\* check-ins one after the other; between two of them the clock advances,
\* the event is edited and athletes are deleted
NextOrder ==
    \/ \E r \in {1} : CreateCheckIn(r) \/ Finish(r)
    \/ reqs[1].op = "idle" /\ Tick
    \/ reqs[1].op = "idle" /\ UpdateEvent
    \/ reqs[1].op = "idle" /\ DeleteAthlete

SpecOrder == Init /\ [][NextOrder]_vars

----------------------------------------------------------------------------
(* POST /athletes and PUT /athletes/:id with the email of the body.  The   *)
(* athletes table has no uniqueness constraint on email.                   *)

Emails == {"x@nova", "y@nova"}

\* SELECT id FROM athletes WHERE email = ? AND id != ?
\* (POST has no id to leave out: a is "")
EmailTaken(aths, m, a) ==
    \E b \in DOMAIN aths \ {a} : aths[b].exists /\ aths[b].email = m

\* the body is validated; with an email the lookup follows, else the insert
StartRegister(r) ==
    /\ reqs[r].op = "idle"
    /\ \E m \in Emails \cup {NoEmail}, complete \in BOOLEAN :
         LET q == [Idle EXCEPT !.op = "createAthlete", !.email = m] IN
         IF ~complete
         THEN Step(r, Respond(q, 400, "First name, last name, date of birth, emergency contact name, and emergency phone are required"))
         ELSE Step(r, [q EXCEPT !.pc = IF m # NoEmail THEN "lookup" ELSE "insert"])
    /\ UNCHANGED <<ui, authorized, now, athletes, events, checkins, nextId, tx>>

\* SELECT id FROM athletes WHERE email = ?
RegisterLookup(r) ==
    /\ reqs[r].op = "createAthlete" /\ reqs[r].pc = "lookup"
    /\ IF EmailTaken(athletes, reqs[r].email, "")
       THEN Step(r, Respond(reqs[r], 400, "Athlete with this email already exists"))
       ELSE Step(r, [reqs[r] EXCEPT !.pc = "insert"])
    /\ UNCHANGED <<ui, authorized, now, athletes, events, checkins, nextId, tx>>

\* INSERT INTO athletes under a new uuid
RegisterInsert(r) ==
    /\ reqs[r].op = "createAthlete" /\ reqs[r].pc = "insert"
    /\ \E a \in AthleteIds :
         /\ FreshAthlete(a)
         /\ athletes' = [athletes EXCEPT
                ![a] = [NewAthlete(FALSE, NoDate) EXCEPT !.email = reqs[r].email]]
         /\ Step(r, [reqs[r] EXCEPT !.athleteId = a, !.pc = "getNew"])
    /\ UNCHANGED <<ui, authorized, now, events, checkins, nextId, tx>>

\* the new row is read back and returned with 201
RegisterGetNew(r) ==
    /\ reqs[r].op = "createAthlete" /\ reqs[r].pc = "getNew"
    /\ Step(r, Respond(reqs[r], 201, ""))
    /\ UNCHANGED <<ui, authorized, now, athletes, events, checkins, nextId, tx>>

RegisterAthlete(r) ==
    \/ StartRegister(r)
    \/ RegisterLookup(r)
    \/ RegisterInsert(r)
    \/ RegisterGetNew(r)

\* SELECT id FROM athletes WHERE id = ?; with an email in the body the
\* lookup of the email follows, else the UPDATE
StartChangeEmail(r) ==
    /\ reqs[r].op = "idle"
    /\ \E a \in AthleteIds, m \in Emails \cup {NoEmail} :
         LET q == [Idle EXCEPT !.op = "updateAthlete", !.athleteId = a,
                               !.email = m] IN
         IF ~athletes[a].exists
         THEN Step(r, Respond(q, 404, "Athlete not found"))
         ELSE Step(r, [q EXCEPT !.pc = IF m # NoEmail THEN "emailTaken"
                                       ELSE "update"])
    /\ UNCHANGED <<ui, authorized, now, athletes, events, checkins, nextId, tx>>

ChangeEmailTaken(r) ==
    /\ reqs[r].op = "updateAthlete" /\ reqs[r].pc = "emailTaken"
    /\ IF EmailTaken(athletes, reqs[r].email, reqs[r].athleteId)
       THEN Step(r, Respond(reqs[r], 400, "Email already in use by another athlete"))
       ELSE Step(r, [reqs[r] EXCEPT !.pc = "update"])
    /\ UNCHANGED <<ui, authorized, now, athletes, events, checkins, nextId, tx>>

\* UPDATE athletes SET ... email = COALESCE(?, email) ... WHERE id = ?
ChangeEmailWrite(r) ==
    /\ reqs[r].op = "updateAthlete" /\ reqs[r].pc = "update"
    /\ LET a == reqs[r].athleteId IN
         athletes' = IF athletes[a].exists
                     THEN [athletes EXCEPT ![a].email =
                              Coalesce(reqs[r].email # NoEmail, reqs[r].email, @)]
                     ELSE athletes
    /\ Step(r, [reqs[r] EXCEPT !.pc = "getUpdated"])
    /\ UNCHANGED <<ui, authorized, now, events, checkins, nextId, tx>>

\* the row is read back and returned
ChangeEmailGetUpdated(r) ==
    /\ reqs[r].op = "updateAthlete" /\ reqs[r].pc = "getUpdated"
    /\ Step(r, Respond(reqs[r], 200, ""))
    /\ UNCHANGED <<ui, authorized, now, athletes, events, checkins, nextId, tx>>

ChangeEmail(r) ==
    \/ StartChangeEmail(r)
    \/ ChangeEmailTaken(r)
    \/ ChangeEmailWrite(r)
    \/ ChangeEmailGetUpdated(r)

\* athletes are registered and their emails changed by two callers
NextEmail ==
    \E r \in {1, 2} : RegisterAthlete(r) \/ ChangeEmail(r) \/ Finish(r)

SpecEmail == InitLifecycle /\ [][NextEmail]_vars

----------------------------------------------------------------------------
(* The client: routes, login page and check-in page *)

\* locations the application is opened at
Opened == {"/login", "/", "/checkin"}

Show(name) == [kind |-> "show", name |-> name, to |-> ""]
Navigate(to) == [kind |-> "navigate", name |-> "", to |-> to]

\* the element the routes render for a location
RouteElement(path, isAuthenticated, loading) ==
    IF loading THEN Show("spinner")
    ELSE IF path = "/login"
         THEN IF ~isAuthenticated THEN Show("LoginPage")
                                  ELSE Navigate("/dashboard")
    ELSE IF ~isAuthenticated THEN Navigate("/login")
    ELSE CASE path = "/"          -> Navigate("/checkin")
           [] path = "/dashboard" -> Navigate("/admin")
           [] path = "/checkin"   -> Show("CheckInPage")
           [] path = "/athletes"  -> Show("AthleteManagementPage")
           [] path = "/events"    -> Show("EventManagementPage")
           [] path = "/admin"     -> Show("AdminPanel")
           [] OTHER               -> Show("")

Element(u) == RouteElement(u.path, u.isAuthenticated, u.loading)

Shown(u) == Element(u).name

\* the check-in page keeps its state while it is mounted
Render(u) ==
    IF Shown(u) = "CheckInPage" THEN u
    ELSE [NoPage EXCEPT !.path = u.path,
                        !.isAuthenticated = u.isAuthenticated,
                        !.loading = u.loading]

Browser(u) ==
    /\ ui' = Render(u)
    /\ UNCHANGED <<authorized, now, athletes, events, checkins, nextId, tx, reqs>>

\* the authentication state is read when the application starts
LoadingDone ==
    /\ ui.loading
    /\ \E b \in BOOLEAN :
         Browser([ui EXCEPT !.loading = FALSE, !.isAuthenticated = b])

Login ==
    /\ Shown(ui) = "LoginPage"
    /\ Browser([ui EXCEPT !.isAuthenticated = TRUE])

Logout ==
    /\ ~ui.loading
    /\ ui.isAuthenticated
    /\ Browser([ui EXCEPT !.isAuthenticated = FALSE])

\* <Navigate to=... /> replaces the location
Redirect ==
    /\ Element(ui).kind = "navigate"
    /\ Browser([ui EXCEPT !.path = Element(ui).to])

\* the link "Quick Check-In (No Login Required)" of the login page
FollowQuickLink ==
    /\ Shown(ui) = "LoginPage"
    /\ Browser([ui EXCEPT !.path = "/checkin"])

\* texts are sequences of characters
Lower(t) ==
    [i \in 1..Len(t) |-> CASE t[i] = "A" -> "a"
                           [] t[i] = "B" -> "b"
                           [] t[i] = "L" -> "l"
                           [] OTHER      -> t[i]]

\* field LIKE '%q%'
Like(field, q) ==
    \E i \in 1..(Len(field) - Len(q) + 1) : SubSeq(field, i, i + Len(q) - 1) = q

\* the athletes on record while the page is used; r1 has no email
Roster ==
    [r1 |-> [firstName |-> <<"A", "n">>, lastName |-> <<"L", "i">>,
             email |-> <<>>],
     r2 |-> [firstName |-> <<"B", "o">>, lastName |-> <<"A", "n">>,
             email |-> <<"l", "i", "@", "x">>]]

\* the answer of GET /athletes/search, as the set of its rows
Search(query) ==
    {a \in DOMAIN Roster :
        \/ Like(Lower(Roster[a].firstName), Lower(query))
        \/ Like(Lower(Roster[a].lastName), Lower(query))
        \/ Roster[a].email # <<>> /\ Like(Lower(Roster[a].email), Lower(query))}

FullName(a) == Roster[a].firstName \o <<" ">> \o Roster[a].lastName

\* texts the user leaves in the search field
Typed == {<<>>, <<"A">>, <<"A", "n">>, <<"l", "i">>, <<"B", "o">>}

\* the effect on searchQuery, run after a render in which the text changed
SearchEffect(u, old) ==
    IF u.searchQuery = old THEN u
    ELSE IF Len(u.searchQuery) >= 2
         THEN [u EXCEPT !.pending = @ \cup {u.searchQuery}]
         ELSE [u EXCEPT !.athletes = {}]

\* onChange of the search field
Type ==
    /\ Shown(ui) = "CheckInPage"
    /\ \E q \in Typed \ {ui.searchQuery} :
         Browser(SearchEffect([ui EXCEPT !.searchQuery = q,
                                         !.selected = FALSE],
                              ui.searchQuery))

\* a search is answered
SearchResponse ==
    /\ Shown(ui) = "CheckInPage"
    /\ \E q \in ui.pending :
         Browser([ui EXCEPT !.pending = @ \ {q}, !.athletes = Search(q)])

\* a search fails: the error is logged
SearchFails ==
    /\ Shown(ui) = "CheckInPage"
    /\ \E q \in ui.pending : Browser([ui EXCEPT !.pending = @ \ {q}])

\* a click on a row of the list
SelectAthlete ==
    /\ Shown(ui) = "CheckInPage"
    /\ \E a \in ui.athletes :
         Browser(SearchEffect([ui EXCEPT !.selectedAthlete = a,
                                         !.searchQuery = FullName(a),
                                         !.athletes = {},
                                         !.selected = TRUE],
                              ui.searchQuery))

\* the check-in of the selected athlete succeeded
CheckedIn ==
    /\ Shown(ui) = "CheckInPage"
    /\ ui.selectedAthlete # ""
    /\ Browser(SearchEffect([ui EXCEPT !.selectedAthlete = "",
                                       !.searchQuery = <<>>,
                                       !.selected = FALSE],
                            ui.searchQuery))

NextPage ==
    \/ LoadingDone
    \/ Login
    \/ Logout
    \/ Redirect
    \/ FollowQuickLink
    \/ Type
    \/ SearchResponse
    \/ SearchFails
    \/ SelectAthlete
    \/ CheckedIn

\* the application has been opened at one of its locations
InitPage ==
    /\ now = StartTime
    /\ athletes = [a \in AthleteIds |-> NoRow]
    /\ events = [e \in EventIds |-> NoRow]
    /\ checkins = {}
    /\ nextId = 1
    /\ tx = NoTx
    /\ reqs = [r \in Reqs |-> Idle]
    /\ authorized = EveryCaller
    /\ \E p \in Opened : ui = [NoPage EXCEPT !.path = p, !.loading = TRUE]

SpecPage == InitPage /\ [][NextPage]_vars

----------------------------------------------------------------------------
(* Responses *)

Succeeded(q) == q.pc = "done" /\ q.status = 201

\* a business-rule rejection: 400 with one of the three conflict messages
Conflict(q) ==
    /\ q.pc = "done" /\ q.status = 400
    /\ q.error \in {"Cannot check into past events",
                    "Athlete already checked in for this event",
                    "Event is at full capacity"}

CapacityExhausted(q) ==
    q.pc = "done" /\ q.status = 400 /\ q.error = "Event is at full capacity"

\* the 400 answer to a body that lacks a required field
Validation(q) ==
    /\ q.pc = "done" /\ q.status = 400
    /\ q.error = "Athlete ID and Event ID are required"

\* the answer of the gate to a caller that is not authorized
AuthorizationFailure(q) == q.pc = "done" /\ q.status = 401

\* the 404 answers
NotFound(q) == q.pc = "done" /\ q.status = 404

\* the 500 answers: a failure that is neither a rejection (400) nor a
\* missing row (404)
InternalFailure(q) == q.pc = "done" /\ q.status = 500

AllDone == \A r \in Reqs : reqs[r].pc = "done"

Successes == {r \in Reqs : Succeeded(reqs[r])}

----------------------------------------------------------------------------
(* Claims *)

\* C1: in every reachable state each event's currentCapacity equals the
\* number of check-in rows of that event.
C1_CapacityEqualsCount ==
    \A e \in EventIds :
        events[e].exists => events[e].currentCapacity = CountFor(checkins, e)

\* C2: in every reachable state each event's currentCapacity is at most its
\* maxCapacity.
C2_CapacityWithinMax ==
    \A e \in EventIds :
        events[e].exists => events[e].currentCapacity <= events[e].maxCapacity

\* C3: when createCheckIn calls by distinct athletes against one bookable
\* event of maxCapacity N without prior check-ins have all returned, at most
\* N succeeded, every other call got a Conflict, and currentCapacity equals
\* the number of successes.
C3_AtMostNSucceed ==
    \A e \in EventIds :
        (/\ AllDone
         /\ \A r \in Reqs : reqs[r].op = "create" /\ reqs[r].eventId = e
                            /\ reqs[r].athleteId # ""
         /\ \A r1, r2 \in Reqs : r1 # r2 => reqs[r1].athleteId # reqs[r2].athleteId)
        => /\ Cardinality(Successes) <= events[e].maxCapacity
           /\ \A r \in Reqs \ Successes : Conflict(reqs[r])
           /\ events[e].currentCapacity = Cardinality(Successes)

\* C4: with one slot left on an event, two createCheckIn calls by different
\* athletes end with exactly one success and one capacity-exhausted failure,
\* and the slot count matches the successes.
C4_LastSlotOnce ==
    \A e \in EventIds : \A r1, r2 \in Reqs :
        (/\ r1 # r2
         /\ events[e].maxCapacity = 1
         /\ reqs[r1].op = "create" /\ reqs[r1].pc = "done" /\ reqs[r1].eventId = e
         /\ reqs[r2].op = "create" /\ reqs[r2].pc = "done" /\ reqs[r2].eventId = e
         /\ reqs[r1].athleteId # "" /\ reqs[r2].athleteId # ""
         /\ reqs[r1].athleteId # reqs[r2].athleteId)
        => /\ \/ Succeeded(reqs[r1]) /\ CapacityExhausted(reqs[r2])
              \/ Succeeded(reqs[r2]) /\ CapacityExhausted(reqs[r1])
           /\ events[e].currentCapacity = 1

\* C5: in every reachable state there is at most one check-in row per
\* (athleteId, eventId) pair.
C5_OneRowPerPair ==
    \A c1, c2 \in checkins :
        (c1.athleteId = c2.athleteId /\ c1.eventId = c2.eventId) => c1 = c2

\* C6: two createCheckIn calls with the same athlete and event, against a
\* bookable event with free capacity, end with exactly one success and one
\* Conflict.
C6_SamePairOnce ==
    \A r1, r2 \in Reqs :
        (/\ r1 # r2
         /\ reqs[r1].op = "create" /\ reqs[r1].pc = "done"
         /\ reqs[r2].op = "create" /\ reqs[r2].pc = "done"
         /\ reqs[r1].athleteId # "" /\ reqs[r1].eventId # ""
         /\ reqs[r1].athleteId = reqs[r2].athleteId
         /\ reqs[r1].eventId = reqs[r2].eventId)
        => \/ Succeeded(reqs[r1]) /\ Conflict(reqs[r2])
           \/ Succeeded(reqs[r2]) /\ Conflict(reqs[r1])

\* the step in which request r inserts its check-in row
Inserts(r) ==
    reqs[r].op = "create" /\ reqs[r].pc = "tx" /\ reqs'[r].pc = "getNew"

\* the step in which request r gets the event row of its createCheckIn
ReadsEvent(r) ==
    reqs[r].op = "create" /\ reqs[r].pc = "getEvent" /\ reqs'[r].pc # "getEvent"

\* C7: a check-in row is inserted only while its event is Bookable (dated
\* today and active) at the moment of the insert.
C7_InsertOnlyBookable ==
    [][\A r \in Reqs :
          Inserts(r) => reqs[r].eventId \in TodayEvents(events, DateOf(now))]_vars

ClassesOf(e) ==
    Cardinality({c \in {"Bookable", "Disabled", "Past"} :
        \/ c = "Bookable" /\ e \in TodayEvents(events, DateOf(now))
        \/ c = "Disabled" /\ e \in DisabledEvents(events, DateOf(now))
        \/ c = "Past" /\ e \in PastEvents(events, DateOf(now))})

\* C9 as claimed: every event falls in exactly one of Bookable, Disabled and
\* Past.
C9_ExactlyOneClass ==
    \A e \in EventIds : events[e].exists => ClassesOf(e) = 1

\* C9 as amended: every event falls in at most one of Bookable, Disabled and
\* Past, and in none exactly when it is active and dated after today.
C9_AtMostOneClass ==
    \A e \in EventIds :
        events[e].exists =>
            /\ ClassesOf(e) <= 1
            /\ ClassesOf(e) = 0 <=>
                   (events[e].isActive /\ events[e].date > DateOf(now))

\* midnight has passed: an active event that was Bookable the day before
\* now lists as Past
C9_Witness ==
    \E e \in EventIds :
        /\ DateOf(now) > DateOf(StartTime)
        /\ events[e].isActive
        /\ e \in PastEvents(events, DateOf(now))
        /\ e \in TodayEvents(events, DateOf(now) - 1)

\* C10: the waiverValidated a createCheckIn computed is false when the
\* athlete row it read has hasValidWaiver false, true when hasValidWaiver is
\* true without expiration date, and otherwise true exactly when the
\* expiration is strictly later than the instant of the computation.
C10_WaiverRule ==
    \A r \in Reqs :
        (reqs[r].op = "create" /\ reqs[r].pc = "tx") =>
            LET has == reqs[r].athlete.hasValidWaiver
                exp == reqs[r].athlete.waiverExpirationDate
                t   == reqs[r].checkInTime
                wv  == reqs[r].waiverValidated
            IN /\ ~has => ~wv
               /\ (has /\ exp = NoDate) => wv
               /\ (has /\ exp # NoDate) => (wv <=> exp > t)

\* a waiver that expires at the very instant of the check-in was computed
\* as not validated
C10_Witness ==
    \E r \in Reqs :
        /\ reqs[r].op = "create" /\ reqs[r].pc = "tx"
        /\ reqs[r].athlete.hasValidWaiver
        /\ reqs[r].athlete.waiverExpirationDate = reqs[r].checkInTime
        /\ ~reqs[r].waiverValidated

\* C11: the waiverValidated of a check-in row that stays in the table never
\* changes, whatever step is taken: an athlete or waiver update, an update
\* of the notes, an event update, the passing of time, or a further
\* check-in or reversal.
C11_WaiverSnapshotFrozen ==
    [][\A c \in checkins : \A d \in checkins' :
          d.id = c.id => d.waiverValidated = c.waiverValidated]_vars

\* a row stores a validated waiver and annotated notes while its athlete's
\* waiver has since been revoked
C11_Witness ==
    \E c \in checkins :
        /\ c.waiverValidated
        /\ c.notes # NoNotes
        /\ athletes[c.athleteId].exists
        /\ ~WaiverValidated(athletes[c.athleteId], now)
        /\ now > c.checkInTime

\* the step is one of request r
StepOf(r) == reqs'[r] # reqs[r]

\* the step lands the three effects of request r's createCheckIn: its row,
\* the increment of its event and the lastVisited of its athlete
AllEffects(r) ==
    LET q == reqs[r] IN
    /\ CheckinRow(q) \notin checkins
    /\ checkins' = checkins \cup {CheckinRow(q)}
    /\ events[q.eventId].exists
    /\ events' = [events EXCEPT ![q.eventId].currentCapacity = @ + 1]
    /\ athletes[q.athleteId].exists
    /\ athletes' = [athletes EXCEPT ![q.athleteId].lastVisited = DateOf(q.checkInTime)]

\* C12: every step of a createCheckIn leaves the store as it was or lands
\* the check-in row, the increment of the event's currentCapacity and the
\* athlete's lastVisited together, so that no state another request sees
\* and no final state holds some of the three without the others.
C12_AllOrNothing ==
    [][\A r \in Reqs :
          (reqs[r].op = "create" /\ StepOf(r)) =>
              (UNCHANGED <<athletes, events, checkins>> \/ AllEffects(r))]_vars

\* the step in which the reverseCheckIn of request r answers success
ReverseSucceeds(r) ==
    /\ reqs[r].op = "reverse" /\ reqs[r].pc = "tx"
    /\ reqs'[r].pc = "done" /\ reqs'[r].status = 200

\* C13: the step in which a reverseCheckIn succeeds deletes exactly the row
\* of its check-in id and decrements the currentCapacity of that row's event
\* by exactly one, and changes no other row and no other event.
C13_ReverseExactlyOne ==
    [][\A r \in Reqs :
          ReverseSucceeds(r) =>
              \E c \in checkins :
                  /\ c.id = reqs[r].checkinId
                  /\ checkins' = checkins \ {c}
                  /\ events[c.eventId].exists
                  /\ events' = [events EXCEPT ![c.eventId].currentCapacity = @ - 1]]_vars

\* C14: in every reachable state each event's currentCapacity is at least
\* zero.
C14_CapacityNonNegative ==
    \A e \in EventIds : events[e].exists => events[e].currentCapacity >= 0

\* C15: when reverseCheckIn reaches its transaction for a check-in whose
\* event has currentCapacity 0, it answers with an internal failure and
\* leaves the check-in rows and the events as they were.
C15_ReverseAtZeroFails ==
    [][\A r \in Reqs :
          (/\ reqs[r].op = "reverse" /\ reqs[r].pc = "tx" /\ StepOf(r)
           /\ \E c \in checkins :
                  /\ c.id = reqs[r].checkinId
                  /\ events[c.eventId].exists
                  /\ events[c.eventId].currentCapacity = 0)
          => /\ InternalFailure(reqs'[r])
             /\ UNCHANGED <<checkins, events>>]_vars

\* the step in which request r is answered
Completes(r) == reqs[r].pc # "done" /\ reqs'[r].pc = "done"

\* C16: in the sequential run of an active event of today with maxCapacity
\* 1, A1's check-in succeeds and leaves currentCapacity 1 (with the
\* waiverValidated of A1's waiver), A2's check-in is refused for capacity
\* with currentCapacity still 1, the reversal of A1's check-in leaves
\* currentCapacity 0, and A2's second check-in succeeds with
\* currentCapacity 1.
C16_ScenarioE ==
    [][/\ (Completes(1) /\ reqs'[1].op = "create") =>
              /\ Succeeded(reqs'[1])
              /\ reqs'[1].waiverValidated =
                     WaiverValidated(athletes["a1"], reqs[1].checkInTime)
              /\ events'["e1"].currentCapacity = 1
       /\ (Completes(2) /\ reqs[1].op = "create") =>
              /\ CapacityExhausted(reqs'[2])
              /\ events'["e1"].currentCapacity = 1
       /\ (Completes(1) /\ reqs'[1].op = "reverse") =>
              /\ reqs'[1].status = 200
              /\ events'["e1"].currentCapacity = 0
       /\ (Completes(2) /\ reqs[1].op = "reverse") =>
              /\ Succeeded(reqs'[2])
              /\ events'["e1"].currentCapacity = 1]_vars

\* the run has come to its end: the reversal was answered, A2's second
\* check-in succeeded and holds the only row
C16_Witness ==
    /\ reqs[1].op = "reverse" /\ reqs[1].pc = "done" /\ reqs[1].status = 200
    /\ Succeeded(reqs[2]) /\ reqs[2].athleteId = "a2"
    /\ events["e1"].currentCapacity = 1
    /\ \A c \in checkins : c.athleteId = "a2"
    /\ nextId = 3

\* C17: the four preconditions of createCheckIn hold of the store at the
\* step that inserts the row and increments the count (the athlete exists,
\* the event is Bookable, the pair has no check-in, a slot is free): no
\* write of another request has come between the deciding reads and the
\* writes.
C17_PreconditionsAtInsert ==
    [][\A r \in Reqs :
          Inserts(r) =>
              LET q == reqs[r] IN
              /\ athletes[q.athleteId].exists
              /\ q.eventId \in TodayEvents(events, DateOf(now))
              /\ ~ExistingCheckin(checkins, q.athleteId, q.eventId)
              /\ ~AtCapacity(events[q.eventId])]_vars

\* C18: when createCheckIn has answered with a failure, the store holds no
\* check-in row of that call for good (and so neither its increment nor its
\* lastVisited, which the same commit carries).
C18_FailureLeavesNothing ==
    \A r \in Reqs :
        (reqs[r].op = "create" /\ reqs[r].pc = "done" /\ reqs[r].status # 201)
        => \A c \in Committed.checkins : c.id # reqs[r].checkinId

\* C19: a transaction that is open is ended by a step of the request that
\* began it, its COMMIT or its ROLLBACK, and by no step of another request.
C19_EndedByOwner ==
    [][(tx.open /\ ~tx'.open) => StepOf(tx.owner)]_vars

\* C20: a createCheckIn that passes the duplicate and the capacity test with
\* a waiver that computes as not validated goes on to its transaction; its
\* row is inserted with waiverValidated false and the event's count goes up
\* by one; and its answer is the 201 carrying waiverValidated false.
C20_InvalidWaiverChecksIn ==
    [][\A r \in Reqs :
          LET q == reqs[r] IN
          /\ (/\ q.op = "create" /\ q.pc = "getExisting" /\ StepOf(r)
              /\ ~ExistingCheckin(checkins, q.athleteId, q.eventId)
              /\ ~AtCapacity(q.event)
              /\ ~WaiverValidated(q.athlete, now))
             => reqs'[r].pc = "tx" /\ ~reqs'[r].waiverValidated
          /\ (Inserts(r) /\ ~q.waiverValidated)
             => /\ \E c \in checkins' \ checkins :
                       c.id = q.checkinId /\ ~c.waiverValidated
                /\ events'[q.eventId].currentCapacity =
                       events[q.eventId].currentCapacity + 1
          /\ (q.op = "create" /\ q.pc = "getNew" /\ StepOf(r) /\ ~q.waiverValidated)
             => Succeeded(reqs'[r]) /\ ~reqs'[r].waiverValidated]_vars

\* an athlete without a valid waiver was checked in: the answer is a
\* success carrying waiverValidated false, the row stores false and the
\* event counts the check-in
C20_Witness ==
    \E r \in Reqs :
        /\ Succeeded(reqs[r]) /\ ~reqs[r].waiverValidated
        /\ \E c \in checkins :
               /\ c.id = reqs[r].checkinId /\ ~c.waiverValidated
               /\ ~athletes[c.athleteId].hasValidWaiver
               /\ events[c.eventId].currentCapacity = 1

\* the committed athlete table with the lastVisited of request r's athlete
\* set to the date of r's checkInTime
Visited(r) ==
    [Committed.athletes EXCEPT
        ![reqs[r].athleteId].lastVisited = DateOf(reqs[r].checkInTime)]

\* the createCheckIn requests for athlete a that are not answered with a
\* failure: in progress or answered 201
NotFailed(a) ==
    {r \in Reqs : /\ reqs[r].op = "create" /\ reqs[r].athleteId = a
                  /\ ~(reqs[r].pc = "done" /\ reqs[r].status # 201)}

\* C21: a step of a createCheckIn changes the committed athlete table only
\* by setting its own athlete's lastVisited to the date of its checkInTime
\* (no other athlete, no waiver field); and when every createCheckIn for an
\* athlete has answered with a failure, the athlete's committed lastVisited
\* is as it was before the calls.
C21_LastVisitedFrame ==
    [][/\ \A r \in Reqs :
              (reqs[r].op = "create" /\ StepOf(r)) =>
                  \/ Committed'.athletes = Committed.athletes
                  \/ Committed'.athletes = Visited(r)
       /\ \A a \in AthleteIds :
              (Committed'.athletes[a].exists /\ NotFailed(a)' = {}) =>
                  Committed'.athletes[a].lastVisited = NoDate]_vars

\* the step writes the notes of request r into the row of its check-in id
\* and leaves the other columns of the row and the other rows alone
NotesOnly(r) ==
    \E c \in checkins :
        /\ c.id = reqs[r].checkinId
        /\ checkins' = (checkins \ {c}) \cup {[c EXCEPT !.notes = reqs[r].notes]}

\* C22: a step of updateNotes leaves every athlete and every event
\* (currentCapacity included) as it was, and leaves the check-in rows as
\* they were or changes the notes of the row of its id and nothing else of
\* that row (athleteId, eventId, checkInTime, waiverValidated) or of any
\* other row; called with an id that no row has, it answers NotFound and
\* changes nothing.
C22_NotesOnly ==
    [][\A r \in Reqs :
          /\ (reqs[r].op = "notes" /\ StepOf(r)) =>
                 /\ UNCHANGED <<athletes, events>>
                 /\ (UNCHANGED checkins \/ NotesOnly(r))
          /\ (StepOf(r) /\ reqs'[r].op = "notes" /\ reqs[r].op = "idle") =>
                 IF \E c \in checkins : c.id = reqs'[r].checkinId
                 THEN reqs'[r].pc = "write"
                 ELSE NotFound(reqs'[r]) /\ UNCHANGED <<athletes, events, checkins>>
          /\ (reqs[r].op = "notes" /\ reqs[r].pc = "write"
              /\ \E c \in checkins : c.id = reqs[r].checkinId) =>
                 (StepOf(r) => NotesOnly(r))]_vars

\* the notes of a check-in were changed and answered 200, and the row keeps
\* its athlete, event, time and waiver outcome while the event counts it
C22_Witness ==
    \E r \in Reqs :
        /\ reqs[r].op = "notes" /\ reqs[r].pc = "done" /\ reqs[r].status = 200
        /\ \E c \in checkins :
               /\ c.id = reqs[r].checkinId /\ c.notes = "late"
               /\ c.athleteId \in AthleteIds /\ c.eventId \in EventIds
               /\ events[c.eventId].currentCapacity = CountFor(checkins, c.eventId)

\* C23: an event's currentCapacity is changed only by a step of a
\* createCheckIn (by +1) or a reverseCheckIn (by -1) naming that event:
\* event update and toggle, athlete create, update, waiver update and
\* delete, and updateNotes leave it as it was; an event that comes into
\* existence starts at currentCapacity 0.
C23_CapacityWriters ==
    [][\A e \in EventIds :
          /\ (events[e].exists /\ events'[e].exists
              /\ events'[e].currentCapacity # events[e].currentCapacity) =>
                 \E r \in Reqs :
                     /\ StepOf(r) /\ reqs[r].eventId = e
                     /\ \/ /\ reqs[r].op = "create"
                            /\ events'[e].currentCapacity = events[e].currentCapacity + 1
                        \/ /\ reqs[r].op = "reverse"
                            /\ events'[e].currentCapacity = events[e].currentCapacity - 1
          /\ (~events[e].exists /\ events'[e].exists) =>
                 events'[e].currentCapacity = 0]_vars

\* an event counts one check-in after it was deactivated, the row's notes
\* were edited and the athlete of the row was deleted
C23_Witness ==
    \E c \in checkins :
        /\ c.notes = "late"
        /\ ~athletes[c.athleteId].exists
        /\ events[c.eventId].exists /\ ~events[c.eventId].isActive
        /\ events[c.eventId].currentCapacity = 1
        /\ CountFor(checkins, c.eventId) = 1

\* the ids of the check-in rows the store holds for good
CommittedIds == {c.id : c \in Committed.checkins}

\* C24: a check-in row comes into existence only by a step of a
\* createCheckIn carrying its id, and that call does not answer with a
\* failure; a row ceases to exist only by a step of a reverseCheckIn
\* carrying its id; no other operation adds or removes a row.
C24_RowLifecycle ==
    [][/\ \A id \in CommittedIds' \ CommittedIds :
              \E r \in Reqs :
                  StepOf(r) /\ reqs[r].op = "create" /\ reqs[r].checkinId = id
       /\ \A id \in CommittedIds \ CommittedIds' :
              \E r \in Reqs :
                  StepOf(r) /\ reqs[r].op = "reverse" /\ reqs[r].checkinId = id
       /\ \A r \in Reqs :
              (Completes(r) /\ reqs'[r].op = "create" /\ reqs'[r].status # 201) =>
                  reqs'[r].checkinId \notin CommittedIds']_vars

\* C25: in every reachable state every check-in row references an athlete
\* that exists and an event that exists.
C25_ReferencesExist ==
    \A c \in checkins :
        athletes[c.athleteId].exists /\ events[c.eventId].exists

\* request r starts operation op in this step
Starts(r, op) == reqs[r].op = "idle" /\ reqs'[r].op = op

\* C26: createCheckIn reading an athlete id that matches no athlete, or an
\* event id that matches no event, and reverseCheckIn or updateNotes
\* looking up a check-in id that matches no check-in, each answer NotFound
\* and leave the athletes, the events and the check-ins as they were.
C26_MissingIsNotFound ==
    [][\A r \in Reqs :
          LET q == reqs[r] IN
          /\ (/\ q.op = "create" /\ StepOf(r)
              /\ \/ q.pc = "getAthlete" /\ ~athletes[q.athleteId].exists
                 \/ q.pc = "getEvent" /\ ~events[q.eventId].exists)
             => NotFound(reqs'[r]) /\ UNCHANGED <<athletes, events, checkins>>
          /\ (/\ Starts(r, "reverse") \/ Starts(r, "notes")
              /\ \A c \in checkins : c.id # reqs'[r].checkinId)
             => NotFound(reqs'[r]) /\ UNCHANGED <<athletes, events, checkins>>]_vars

\* a check-in for an athlete that was deleted was answered 404 while the
\* event has a check-in, and so was a notes update of an id no row has
C26_Witness ==
    /\ reqs[1].op = "create" /\ NotFound(reqs[1])
    /\ reqs[1].error = "Athlete not found"
    /\ reqs[2].op = "notes" /\ NotFound(reqs[2])
    /\ checkins # {}
    /\ \A c \in checkins : c.id # reqs[2].checkinId

\* C27: a createCheckIn whose body lacks the athleteId or the eventId is
\* answered with the validation failure in the step in which it arrives,
\* whatever the store holds (no read has been made), and that step leaves
\* the athletes, the events, the check-ins and the id counter as they were.
C27_ValidationFirst ==
    [][\A r \in Reqs :
          (/\ Starts(r, "create")
           /\ reqs'[r].athleteId = "" \/ reqs'[r].eventId = "")
          => /\ Validation(reqs'[r])
             /\ UNCHANGED <<athletes, events, checkins, nextId, tx>>]_vars

\* a body with an event id and no athlete id was answered with the
\* validation failure although the event it names does not exist
C27_Witness ==
    \E r \in Reqs :
        /\ reqs[r].op = "create" /\ Validation(reqs[r])
        /\ reqs[r].athleteId = "" /\ reqs[r].eventId \in EventIds
        /\ ~events[reqs[r].eventId].exists

\* C29: each count of the statistics snapshot is the number the stored
\* check-ins give at its query, for the today of the request's clock
\* reading: today counts the rows whose checkInTime is on that date,
\* thisWeek the rows dated today minus 7 days or later, total all rows,
\* waiverValidated and waiverNotValidated the rows whose stored flag is
\* true and false; the athletes' present waivers play no part.
C29_StatsCounts ==
    [][\A r \in Reqs :
          LET q == reqs[r]
              since(d) == {c \in checkins : c.checkInTime >= d * TicksPerDay} IN
          /\ Starts(r, "stats") => reqs'[r].today = now \div TicksPerDay
          /\ (q.op = "stats" /\ StepOf(r)) =>
                 /\ q.pc = "countToday" =>
                        reqs'[r].stats.today =
                            Cardinality(since(q.today) \ since(q.today + 1))
                 /\ q.pc = "countWeek" =>
                        reqs'[r].stats.thisWeek =
                            Cardinality(since(q.today - 7))
                 /\ q.pc = "countTotal" =>
                        reqs'[r].stats.total = Cardinality(checkins)
                 /\ q.pc = "countWaiver" =>
                        /\ reqs'[r].stats.waiverValidated =
                               Cardinality({c \in checkins : c.waiverValidated})
                        /\ reqs'[r].stats.waiverNotValidated =
                               Cardinality({c \in checkins : ~c.waiverValidated})
                        /\ reqs'[r].stats.today = q.stats.today
                        /\ reqs'[r].stats.thisWeek = q.stats.thisWeek
                        /\ reqs'[r].stats.total = q.stats.total
                        /\ reqs'[r].status = 200]_vars

\* a snapshot was answered that counts a row of today, a row of seven days
\* ago in the week and a validated row whose athlete has no valid waiver now
C29_Witness ==
    \E r \in Reqs :
        /\ reqs[r].op = "stats" /\ reqs[r].pc = "done" /\ reqs[r].status = 200
        /\ reqs[r].stats.today = 1 /\ reqs[r].stats.thisWeek = 2
        /\ reqs[r].stats.total = 2
        /\ reqs[r].stats.waiverValidated = 1
        /\ reqs[r].stats.waiverNotValidated = 1
        /\ \E c \in checkins :
               /\ c.waiverValidated /\ ~athletes[c.athleteId].hasValidWaiver
               /\ DateOf(c.checkInTime) = StatsDay - WeekDays

\* the absolute value
Abs(x) == IF x < 0 THEN -x ELSE x

\* C30: the per-event statistics answer carries as totalCheckins the number
\* of check-in rows of the event, as capacityUsed the tenth nearest to
\* totalCheckins / maxCapacity * 100, and a totalCheckins equal to
\* waiverValidated + waiverNotValidated.
C30_EventStats ==
    [][\A r \in Reqs :
          LET q == reqs[r]
              s == reqs'[r].stats IN
          (q.op = "eventStats" /\ StepOf(r)) =>
              /\ q.pc = "countTotal" =>
                     s.total = Cardinality({c \in checkins : c.eventId = q.eventId})
              /\ q.pc = "countNotValidated" =>
                     /\ s.total = q.stats.total
                     /\ 2 * Abs(s.capacityUsed * q.event.maxCapacity - 1000 * s.total)
                            <= q.event.maxCapacity
                     /\ s.total = s.waiverValidated + s.waiverNotValidated]_vars

C31_ExportExact ==
    [][\A r \in Reqs :
          Starts(r, "export") =>
              LET q == reqs'[r]
                  n == Len(q.export)
                  matching ==
                      {c \in checkins :
                          /\ q.startDate = NoDate
                             \/ c.checkInTime >= q.startDate * TicksPerDay
                          /\ q.endDate = NoDate
                             \/ c.checkInTime < (q.endDate + 1) * TicksPerDay
                          /\ q.eventId = "" \/ c.eventId = q.eventId} IN
              /\ q.pc = "done" /\ q.status = 200
              /\ {q.export[i] : i \in 1..n} = matching
              /\ n = Cardinality(matching)
              /\ \A i \in 1..n : \A j \in 1..n :
                     i < j => q.export[i].checkInTime >= q.export[j].checkInTime]_vars

\* C32: in every reachable state the maxCapacity of every event is a
\* positive integer, and no step lowers an event's maxCapacity below its
\* currentCapacity.
C32_MaxCapacityPositive ==
    [][\A e \in EventIds :
          events'[e].exists =>
              /\ events'[e].maxCapacity \in Nat \ {0}
              /\ (events[e].exists
                  /\ events'[e].maxCapacity # events[e].maxCapacity) =>
                     events'[e].maxCapacity >= events'[e].currentCapacity]_vars

\* C33: a user who is not logged in and follows the quick check-in link of
\* the login page is shown the check-in page.
C33_QuickCheckIn ==
    [][(Shown(ui) = "LoginPage" /\ ui'.path = "/checkin")
          => Shown(ui') = "CheckInPage"]_vars

\* C38: on the check-in page, from the selection of an athlete in the list
\* until the search text is edited, the list is empty; and the answer to a
\* search for a text other than the current one leaves the list as it is.
C38_ListStaysEmpty ==
    [][Shown(ui') = "CheckInPage" =>
          /\ ui'.selected => ui'.athletes = {}
          /\ \A q \in ui.pending \ ui'.pending :
                q # ui.searchQuery => ui'.athletes = ui.athletes]_vars

\* the failure that the fixed order of the preconditions puts first for a
\* check-in of athlete a into event e, stated over the tables; <<201, "">> when
\* no precondition fails
FirstFailure(a, e) ==
    IF a = "" \/ e = "" THEN <<400, "Athlete ID and Event ID are required">>
    ELSE IF ~athletes[a].exists THEN <<404, "Athlete not found">>
    ELSE IF ~(events[e].exists /\ events[e].isActive)
         THEN <<404, "Event not found or inactive">>
    ELSE IF events[e].date < DateOf(now)
         THEN <<400, "Cannot check into past events">>
    ELSE IF \E c \in checkins : c.athleteId = a /\ c.eventId = e
         THEN <<400, "Athlete already checked in for this event">>
    ELSE IF events[e].currentCapacity >= events[e].maxCapacity
         THEN <<400, "Event is at full capacity">>
    ELSE <<201, "">>

\* C34: a createCheckIn that is refused reports the first failing
\* precondition in the order missing fields, athlete, event, past, duplicate,
\* capacity; and it goes on to write only when none fails.
C34_FirstFailure ==
    [][\A r \in Reqs :
          /\ (reqs[r].pc # "done" /\ reqs'[r].op = "create"
              /\ reqs'[r].pc = "done" /\ reqs'[r].status \in {400, 404})
                => <<reqs'[r].status, reqs'[r].error>>
                      = FirstFailure(reqs'[r].athleteId, reqs'[r].eventId)
          /\ (reqs[r].pc = "getExisting" /\ reqs'[r].pc = "tx")
                => FirstFailure(reqs[r].athleteId, reqs[r].eventId) = <<201, "">>]_vars

\* a repeated check-in into a full event has been answered with the duplicate
C34_Witness ==
    \E r \in Reqs :
        /\ reqs[r].op = "create" /\ reqs[r].pc = "done"
        /\ reqs[r].error = "Athlete already checked in for this event"
        /\ events[reqs[r].eventId].exists
        /\ events[reqs[r].eventId].currentCapacity
              >= events[reqs[r].eventId].maxCapacity

\* C35: an event is removed only in a state in which no check-in row names it,
\* and a delete request that is refused changes no table.
C35_DeleteOnlyEmpty ==
    [][/\ \A e \in EventIds :
             (events[e].exists /\ ~events'[e].exists)
                => \A c \in checkins : c.eventId # e
       /\ \A r \in Reqs :
             (reqs[r].op = "deleteEvent" /\ reqs[r].pc # "done"
              /\ reqs'[r].pc = "done" /\ reqs'[r].status = 400)
                => UNCHANGED <<athletes, events, checkins>>]_vars

\* C36: in every reachable state no two athletes have the same non-empty
\* email.
C36_UniqueEmail ==
    \A a, b \in AthleteIds :
        (a # b /\ athletes[a].exists /\ athletes[b].exists
         /\ athletes[a].email = athletes[b].email)
            => athletes[a].email = NoEmail

\* C37: every statistics snapshot that is answered has today <= thisWeek <=
\* total and waiverValidated + waiverNotValidated = total.
C37_SnapshotConsistent ==
    \A r \in Reqs :
        (reqs[r].op = "stats" /\ reqs[r].pc = "done" /\ reqs[r].status = 200)
            => /\ reqs[r].stats.today <= reqs[r].stats.thisWeek
               /\ reqs[r].stats.thisWeek <= reqs[r].stats.total
               /\ reqs[r].stats.waiverValidated + reqs[r].stats.waiverNotValidated
                     = reqs[r].stats.total

====
